---- MODULE Spec2Model ----
(***************************************************************************)
(* Model of the playground server core (dsnet/playground):                 *)
(*   - the executor (exec.go = src/unnamed/part_002): Start / Stop /       *)
(*     Close, the handleFormat and handleRun goroutines, child processes,  *)
(*     the blob store;                                                     *)
(*   - the snippet database (snippets.go, bolt version =                   *)
(*     src/unnamed/part_006);                                              *)
(*   - the HTTP front (playground.go = src/unnamed/part_003): the auth     *)
(*     tokens, ServeHTTP and the login, the read loop of serveWebsocket.   *)
(* Spec      : one goroutine calls Start, Stop and Close of one executor.  *)
(* SpecConc  : two goroutines call the executor concurrently.              *)
(* SpecLive  : one goroutine runs the plain program, stops and closes,     *)
(*             with the fairness of the Go scheduler.                      *)
(* SpecStore : the snippet database, called with valid and invalid         *)
(*             arguments.                                                  *)
(* SpecQuery : the snippet database, called with few arguments, where the  *)
(*             results of the queries are examined in every state.         *)
(* SpecToken : formatAuthToken and parseAuthToken on all keys and times.   *)
(* SpecAuth  : ServeHTTP answering the requests of a browser over days.    *)
(* SpecSession : the read loop of one websocket session and its executor.  *)
(* SpecBroken  : the same session on a connection whose writes may fail.   *)
(* SpecShared  : the executor with a second executor on the same blob      *)
(*               store.                                                    *)
(* SpecKey     : idKey and dualKey on pairs of (modified, id).             *)
(***************************************************************************)
EXTENDS Integers, Sequences, FiniteSets, TLC

\* ------------------------------------------------------------------ bounds
MaxCalls == 2       \* calls (Start, Stop, Close) made on the executor
MaxConcCalls == 2   \* calls made when two goroutines call the executor
MaxLiveCalls == 3   \* calls followed when termination is checked
MaxOps == 4         \* operations performed on the snippet database
MaxTime == 3        \* readings of the clock of the snippet database
MaxSessCalls == 3   \* messages the read loop of a websocket session receives
MaxClock == 9       \* days the clock of the HTTP handlers runs
IntBits == 4        \* width of the integers that stand for int64 values

\* --------------------------------------------------------------- constants
actionFormat == "Format"
actionRun == "Run"
actionStop == "Stop"
clearOutput == "ClearOutput"
markLines == "MarkLines"
appendStdout == "AppendStdout"
appendStderr == "AppendStderr"
reportProfile == "ReportProfile"
statusStarted == "StatusStarted"
statusUpdate == "StatusUpdate"
statusStopped == "StatusStopped"

VARIABLES
    mu,        \* executor.mu: the goroutine holding it, or NoOne
    closed,    \* executor.closed
    ctx,       \* executor.ctx: identity of the current context
    done,      \* the contexts whose cancel function has been called
    wg,        \* executor.wg: the WaitGroup counter
    bids,      \* executor.bids
    bs,        \* blobStore.m: blob id -> blob
    tmpDir,    \* whether the scratch directory exists
    frames,    \* the (action, data) pairs handed to sendMsg, in order
    pc,        \* position of each calling goroutine
    cur,       \* the call each calling goroutine is executing
    calls,     \* number of calls made so far
    task,      \* the handleFormat / handleRun goroutines, by call number
    returned,  \* the calls that have returned
    called,    \* per call: the operation, the calls that had returned and the
               \* handler goroutines that were in flight when it began
    limit      \* the number of calls that are followed

VARIABLES
    bktByID,   \* bucket SnippetsByID: id -> stored snippet
    bktByDate, \* bucket SnippetsByModified: the keys (modified, id)
    lastID,    \* database.lastID
    names,     \* database.names: id -> lower-case name
    now,       \* the value database.timeNow() returns
    ops,       \* number of database operations performed
    res,       \* what the last database operation returned
    created    \* the ids successful Create calls returned, in order

VARIABLES
    failed,    \* the call whose frame the send-callback first failed to write, or 0
    sess,      \* the read loop of serveWebsocket: "open", or "ended" once it returned
    recvd,     \* the action of the message the read loop received last
    clock,     \* what time.Now() returns to the HTTP handlers
    jar,       \* the auth cookie the browser holds (its value), or NoToken
    resp,      \* how ServeHTTP answered the last request
    key,       \* the key of the auth tokens (pg.pwHash in the HTTP handlers)
    ttime,     \* a time given to formatAuthToken
    token,     \* a token string, as a sequence of hexadecimal digits
    parsed     \* the key given to parseAuthToken and the time it returned

VARIABLES
    obids      \* ex.bids of a second executor that was given the same blob store

shareVars == <<obids>>

VARIABLES
    pairA,     \* a (modified, id) pair: seconds, nanoseconds, id
    pairB,     \* another one
    cmp        \* how the keys of pairA and pairB compare, once computed

keyVars == <<pairA, pairB, cmp>>

storeVars == <<bktByID, bktByDate, lastID, names, now, ops, res, created>>

webVars == <<failed, sess, recvd, clock, jar, resp, key, ttime, token, parsed>>

execVars == <<mu, closed, ctx, done, wg, bids, bs, tmpDir, frames, pc, cur, calls, task, returned, called, limit>>

vars == <<execVars, storeVars, webVars, shareVars, keyVars>>

\* Goroutine identities: 0 is nobody, a call number is the goroutine that
\* Start created for that call, 101 and 102 are the goroutines that call in.
NoOne == 0
Callers == {101, 102}
Max(S) == CHOOSE x \in S : \A y \in S : y <= x

Min(S) == CHOOSE x \in S : \A y \in S : x <= y

CallIds == 1..Max({MaxCalls, MaxConcCalls, MaxLiveCalls, MaxSessCalls})

NoCall == [op |-> "none", id |-> 0, action |-> "", prog |-> 0, ctx |-> 0]
NoChild == [st |-> "none", ctx |-> 0, role |-> "", args |-> <<>>, forever |-> FALSE, wrote |-> 0]

\* The locals of a handleFormat / handleRun goroutine.
\*   todo  : the sendMsg calls it makes before its next other statement
\*   ctx0  : ex.ctx when the goroutine was created
\*   bb    : whether the captured stderr holds a line matched by reLine
\*   views : the runProf calls that remain in processProfiles
NoTask == [pc |-> "unborn", kind |-> "", prog |-> 0, todo |-> <<>>, ctx0 |-> 0,
           child |-> NoChild, bb |-> FALSE, hasMain |-> FALSE, gcs |-> <<>>,
           buildArgs |-> <<>>, execArgs |-> <<>>, profArgs |-> <<>>,
           verbose |-> FALSE, i |-> 1, views |-> <<>>, id |-> ""]

\* A goroutine identity for the task of call a.
TaskOf(a) == a

Msg(kind, data) == [kind |-> kind, data |-> data]

\* A frame as sendMsg receives it from goroutine g on behalf of call a.
\* held records whether g holds ex.mu while it calls the send-callback.
Frame(g, a, m) == [call |-> a, kind |-> m.kind, data |-> m.data, held |-> (mu = g)]

IsStatus(f) == f.kind \in {statusStarted, statusStopped}

\* s without its i-th element.
RemoveAt(s, i) == SubSeq(s, 1, i - 1) \o SubSeq(s, i + 1, Len(s))

\* The log of sent frames after one more frame.  Of the frames that one
\* handler goroutine sends between its StatusStarted and its StatusStopped
\* the log keeps the latest one, at its place in the order of sending (held:
\* whether any of them was sent with ex.mu held); every other frame is kept.
Logged(g, a, m) ==
    LET f == Frame(g, a, m)
        old == {i \in 1..Len(frames) : frames[i].call = a /\ ~IsStatus(frames[i])}
    IN  IF g = TaskOf(a) /\ ~IsStatus(f) /\ old # {}
          THEN LET i == CHOOSE j \in old : TRUE
               IN  Append(RemoveAt(frames, i), [f EXCEPT !.held = f.held \/ frames[i].held])
          ELSE Append(frames, f)

\* ex.sendMsg(kind, data) called by goroutine g on behalf of call a.
sendMsg(g, a, kind, data) == frames' = Logged(g, a, Msg(kind, data))

\* newExecutor: a fresh context, nothing running, an empty scratch directory.
InitExec(cs, n) ==
    /\ mu = NoOne
    /\ closed = FALSE
    /\ ctx = 0
    /\ done = {}
    /\ wg = 0
    /\ bids = <<>>
    /\ bs = [id \in {} |-> 0]
    /\ tmpDir = TRUE
    /\ frames = <<>>
    /\ pc = [c \in Callers |-> IF c \in cs THEN "idle" ELSE "off"]
    /\ cur = [c \in Callers |-> NoCall]
    /\ calls = 0
    /\ task = [a \in CallIds |-> NoTask]
    /\ returned = {}
    /\ called = [a \in CallIds |-> [op |-> "none", after |-> {}, busy |-> {}]]
    /\ limit = n


\* ---------------------------------------------------- executor parameters
\* newExecutor(bs, gcBin, fmtBin, gcs, sendMsg): the binaries of the session.
gcBin == "go"
fmtBin == "gofmt"
gcsTable == ("go-alpha" :> "go1" @@ "go-beta" :> "go2")

\* ------------------------------------------------------------- blob store
Data == {"d1", "d2"}

\* md5.Sum + hex.EncodeToString: the id is a function of the data alone.
BlobId(d) == IF d = "d1" THEN "md5-1" ELSE "md5-2"

MapPut(m, k, v) == [x \in (DOMAIN m) \cup {k} |-> IF x = k THEN v ELSE m[x]]

MapDel(m, k) == [x \in (DOMAIN m) \ {k} |-> m[x]]

RECURSIVE MapDelAll(_, _)
MapDelAll(m, ks) == IF ks = <<>> THEN m ELSE MapDelAll(MapDel(m, Head(ks)), Tail(ks))

\* blobStore.Insert: bs.m[id] = b.
Insert(m, b) == MapPut(m, BlobId(b.data), b)

\* A deleteBlobs that forgets the ids without deleting them from the store.
deleteBlobsKeeps ==
    /\ bs' = bs
    /\ bids' = <<>>

\* executor.deleteBlobs: delete every id of ex.bids from the store, ex.bids = nil.
deleteBlobs ==
    /\ bs' = MapDelAll(bs, bids)
    /\ bids' = <<>>

\* playground.go:69, 425  every websocket session creates its executor with the
\* one blob store of the server.  Of a second executor only what reaches the
\* store is followed: its runProf (Insert, then the append to its ex.bids) and
\* its deleteBlobs (at the start of its Run, or in its Close).
MaxOther == 1

InitShare == obids = <<>>

OtherProf ==
    /\ Len(obids) < MaxOther
    /\ \E d \in Data, m \in {"image/svg+xml", "text/html"} :
         /\ bs' = Insert(bs, [data |-> d, mime |-> m])
         /\ obids' = Append(obids, BlobId(d))

OtherDeleteBlobs ==
    /\ obids # <<>>
    /\ bs' = MapDelAll(bs, obids)
    /\ obids' = <<>>

\* ----------------------------------------------------------- source files
\* What go/parser and extractArgs see in a source text:
\*   clauseOk : the package clause parses     pkg    : the package name
\*   fullOk   : the whole file parses         mainFn : a func main() exists
\*   testFn   : a TestX(t) or BenchmarkX(b) function exists
\*   magics   : the //playground: comments before the package clause;
\*              ok = extractArgs can tokenize it, args = its tokens
Magic(ok, args) == [ok |-> ok, args |-> args]

Source(clauseOk, pkg, fullOk, mainFn, testFn, magics) ==
    [clauseOk |-> clauseOk, pkg |-> pkg, fullOk |-> fullOk, mainFn |-> mainFn,
     testFn |-> testFn, magics |-> magics]

Programs == <<
    Source(TRUE, "main", TRUE, TRUE, FALSE, <<>>),
    Source(TRUE, "foo", TRUE, TRUE, FALSE, <<>>),
    Source(TRUE, "main", TRUE, FALSE, TRUE, <<Magic(TRUE, <<"pprof", "cpu">>)>>),
    Source(TRUE, "main", TRUE, TRUE, FALSE, <<Magic(TRUE, <<"goversions", "go-alpha", "go-beta">>)>>),
    Source(TRUE, "main", TRUE, FALSE, FALSE, <<>>),
    Source(TRUE, "main", TRUE, TRUE, TRUE, <<>>),
    Source(TRUE, "main", TRUE, FALSE, TRUE, <<Magic(TRUE, <<"goversions", "go-gamma">>),
                                              Magic(TRUE, <<"pprof", "cpu">>)>>),
    Source(FALSE, "main", FALSE, FALSE, FALSE, <<>>),
    Source(TRUE, "main", FALSE, TRUE, FALSE, <<Magic(TRUE, <<"goversions", "go-alpha", "go-beta">>)>>) >>

\* exec_test.go:178-190  the go tool builds no source that go/parser rejects.
compiles(src) == src.clauseOk /\ src.fullOk

ProgIds == 1..Len(Programs)

NoArgs == [gcs |-> <<>>, buildArgs |-> <<>>, execArgs |-> <<>>, profArgs |-> <<>>]

Parsed(ok, hasMain, a, msgs) ==
    [ok |-> ok, hasMain |-> hasMain, gcs |-> a.gcs, buildArgs |-> a.buildArgs,
     execArgs |-> a.execArgs, profArgs |-> a.profArgs, msgs |-> msgs]

\* exec.go:427-446  the loop over the magic comments.
RECURSIVE parseMagics(_, _)
parseMagics(ms, a) ==
    IF ms = <<>> THEN [ok |-> TRUE, a |-> a, msgs |-> <<>>]
    ELSE LET c == Head(ms) IN
         IF ~c.ok \/ c.args = <<>>
           THEN [ok |-> FALSE, a |-> a, msgs |-> <<Msg(statusUpdate, "Unable to parse magic comment")>>]
         ELSE IF c.args[1] = "goversions"
           THEN parseMagics(Tail(ms), [a EXCEPT !.gcs = Tail(c.args)])
         ELSE IF c.args[1] = "buildargs"
           THEN parseMagics(Tail(ms), [a EXCEPT !.buildArgs = Tail(c.args)])
         ELSE IF c.args[1] = "execargs"
           THEN parseMagics(Tail(ms), [a EXCEPT !.execArgs = Tail(c.args)])
         ELSE IF c.args[1] = "pprof"
           THEN parseMagics(Tail(ms), [a EXCEPT !.profArgs = Tail(c.args)])
         ELSE [ok |-> FALSE, a |-> a, msgs |-> <<Msg(statusUpdate, "Unknown magic comment")>>]

\* parseFile applying the directives collected before a failed full parse.
parseFileKeepsMagics(src) ==
    IF ~src.clauseOk THEN Parsed(TRUE, FALSE, NoArgs, <<>>)
    ELSE IF src.pkg # "main"
      THEN Parsed(FALSE, FALSE, NoArgs, <<Msg(statusUpdate, "Program must be in 'package main'.")>>)
    ELSE IF ~src.fullOk THEN Parsed(TRUE, FALSE, parseMagics(src.magics, NoArgs).a, <<>>)
    ELSE IF src.mainFn = src.testFn
      THEN Parsed(FALSE, src.mainFn, NoArgs,
                  <<Msg(statusUpdate, "Program must have either a main function or a set of test functions.")>>)
    ELSE LET r == parseMagics(src.magics, NoArgs) IN
         IF ~r.ok THEN Parsed(FALSE, src.mainFn, r.a, r.msgs)
         ELSE IF ~src.testFn /\ r.a.profArgs # <<>>
           THEN Parsed(FALSE, src.mainFn, r.a,
                       <<Msg(statusUpdate, "Profiling is only available on test suites")>>)
         ELSE Parsed(TRUE, src.mainFn, r.a, <<>>)

\* parseFile rejecting only the source with neither a main function nor tests.
parseFileAllowsBoth(src) ==
    IF ~src.clauseOk THEN Parsed(TRUE, FALSE, NoArgs, <<>>)
    ELSE IF src.pkg # "main"
      THEN Parsed(FALSE, FALSE, NoArgs, <<Msg(statusUpdate, "Program must be in 'package main'.")>>)
    ELSE IF ~src.fullOk THEN Parsed(TRUE, FALSE, NoArgs, <<>>)
    ELSE IF ~src.mainFn /\ ~src.testFn
      THEN Parsed(FALSE, src.mainFn, NoArgs,
                  <<Msg(statusUpdate, "Program must have either a main function or a set of test functions.")>>)
    ELSE LET r == parseMagics(src.magics, NoArgs) IN
         IF ~r.ok THEN Parsed(FALSE, src.mainFn, r.a, r.msgs)
         ELSE IF ~src.testFn /\ r.a.profArgs # <<>>
           THEN Parsed(FALSE, src.mainFn, r.a,
                       <<Msg(statusUpdate, "Profiling is only available on test suites")>>)
         ELSE Parsed(TRUE, src.mainFn, r.a, <<>>)

\* exec.go:381-452  executor.parseFile.
parseFile(src) ==
    IF ~src.clauseOk THEN Parsed(TRUE, FALSE, NoArgs, <<>>)
    ELSE IF src.pkg # "main"
      THEN Parsed(FALSE, FALSE, NoArgs, <<Msg(statusUpdate, "Program must be in 'package main'.")>>)
    ELSE IF ~src.fullOk THEN Parsed(TRUE, FALSE, NoArgs, <<>>)
    ELSE IF src.mainFn = src.testFn
      THEN Parsed(FALSE, src.mainFn, NoArgs,
                  <<Msg(statusUpdate, "Program must have either a main function or a set of test functions.")>>)
    ELSE LET r == parseMagics(src.magics, NoArgs) IN
         IF ~r.ok THEN Parsed(FALSE, src.mainFn, r.a, r.msgs)
         ELSE IF ~src.testFn /\ r.a.profArgs # <<>>
           THEN Parsed(FALSE, src.mainFn, r.a,
                       <<Msg(statusUpdate, "Profiling is only available on test suites")>>)
         ELSE Parsed(TRUE, src.mainFn, r.a, <<>>)

\* exec.go:281-288  map each toolchain alias through ex.gcs.
RECURSIVE resolveGcs(_)
resolveGcs(gcNames) ==
    IF gcNames = <<>> THEN [ok |-> TRUE, gcs |-> <<>>]
    ELSE IF Head(gcNames) \notin DOMAIN gcsTable THEN [ok |-> FALSE, gcs |-> <<>>]
    ELSE LET r == resolveGcs(Tail(gcNames)) IN
         [ok |-> r.ok, gcs |-> <<gcsTable[Head(gcNames)]>> \o r.gcs]

\* exec.go:296-306  one -test.*profile flag per profiling mode.
RECURSIVE profFlags(_)
profFlags(args) ==
    IF args = <<>> THEN [ok |-> TRUE, flags |-> <<>>]
    ELSE IF Head(args) \notin {"cpu", "mem"} THEN [ok |-> FALSE, flags |-> <<>>]
    ELSE LET r == profFlags(Tail(args)) IN
         [ok |-> r.ok,
          flags |-> <<IF Head(args) = "cpu" THEN "-test.cpuprofile=cpu.prof"
                                            ELSE "-test.memprofile=mem.prof">> \o r.flags]

\* exec.go:272-323  handleRun between parseFile and the rename: the toolchains,
\* the build and the execute argument lists, the frames sent on the way.
setupRun(p) ==
    LET verbose == Len(p.gcs) + Len(p.buildArgs) + Len(p.execArgs) + Len(p.profArgs) > 0
        warn == IF p.gcs # <<>> /\ p.profArgs # <<>>
                  THEN <<Msg(statusUpdate, "WARNING: Support for profiling earlier Go versions is flaky!")>>
                  ELSE <<>>
        rg == IF p.gcs = <<>> THEN [ok |-> TRUE, gcs |-> <<gcBin>>] ELSE resolveGcs(p.gcs)
        pf == profFlags(p.profArgs)
        ea0 == IF p.profArgs # <<>> /\ p.execArgs = <<>>
                 THEN <<"-test.v", "-test.run=-", "-test.bench=.">> ELSE p.execArgs
        ea1 == ea0 \o pf.flags
        name == IF p.hasMain THEN "main.go" ELSE "main_test.go"
        ba == IF p.hasMain THEN <<"build">> \o p.buildArgs \o <<name>>
                           ELSE <<"test", "-c">> \o p.buildArgs \o <<name>>
        ea == IF p.hasMain THEN <<"./main">> \o ea1
              ELSE IF ea1 = <<>> THEN <<"./main.test", "-test.v", "-test.run=.", "-test.bench=.">>
              ELSE <<"./main.test">> \o ea1
        base == [ok |-> FALSE, msgs |-> <<>>, verbose |-> verbose, gcs |-> <<>>,
                 buildArgs |-> <<>>, execArgs |-> <<>>, name |-> name]
    IN  IF ~rg.ok
          THEN [base EXCEPT !.msgs = warn \o <<Msg(statusUpdate, "Unknown Go version")>>]
        ELSE IF ~pf.ok
          THEN [base EXCEPT !.msgs = warn \o <<Msg(statusUpdate, "Unknown profiling argument")>>]
        ELSE [base EXCEPT !.ok = TRUE, !.msgs = warn, !.gcs = rg.gcs,
                          !.buildArgs = ba, !.execArgs = ea]

\* exec.go:528-539  the runProf calls of processProfiles, in order.
RECURSIVE profViews(_)
profViews(args) ==
    IF args = <<>> THEN <<>>
    ELSE (IF Head(args) = "cpu"
            THEN <<"cpu_graph.svg", "cpu_list.html">>
          ELSE IF Head(args) = "mem"
            THEN <<"mem_objects_graph.svg", "mem_objects_list.html",
                   "mem_space_graph.svg", "mem_space_list.html">>
          ELSE <<>>) \o profViews(Tail(args))

\* exec.go:509-515  the MIME type chosen from the suffix of the output name.
mimeOf(output) ==
    IF output \in {"cpu_graph.svg", "mem_objects_graph.svg", "mem_space_graph.svg"}
      THEN "image/svg+xml"
    ELSE IF output \in {"cpu_list.html", "mem_objects_list.html", "mem_space_list.html"}
      THEN "text/html"
    ELSE ""

\* --------------------------------------------- handleFormat and handleRun
MaxChunks == 1      \* writes a child process makes to its stdout / stderr

Tasks == {a \in CallIds : task[a].pc \notin {"unborn", "done"}}

\* exec.go:224-230, 250-255  the goroutine as the go statement creates it:
\* its first statements are sendMsg calls.
NewTask(kind, prog, c) ==
    [NoTask EXCEPT !.kind = kind, !.prog = prog, !.ctx0 = c,
                   !.pc = IF kind = actionFormat THEN "fmt_write" ELSE "run_purge",
                   !.todo = IF kind = actionFormat
                              THEN <<Msg(clearOutput, ""), Msg(statusUpdate, "Formatting source...")>>
                              ELSE <<Msg(clearOutput, "")>>]

\* The next sendMsg call of the goroutine.
TaskSend(a) ==
    /\ task[a].pc \notin {"unborn", "done"}
    /\ task[a].todo # <<>>
    /\ frames' = Logged(TaskOf(a), a, Head(task[a].todo))
    /\ task' = [task EXCEPT ![a].todo = Tail(@)]
    /\ UNCHANGED <<mu, closed, ctx, done, wg, bids, bs, tmpDir, pc, cur, calls, returned>>

\* The goroutine is at statement p, all earlier sendMsg calls made.
At(a, p) == task[a].pc = p /\ task[a].todo = <<>>

errMsg == Msg(statusUpdate, "Unexpected error")

\* exec.go:192-205  reportBadLines: one MarkLines frame if any line matched.
reportBadLines(bb) == IF bb THEN <<Msg(markLines, "[n]")>> ELSE <<>>

\* A handleFormat that begins, as handleRun does, with deleteBlobs.
FormatWritePurges(a) ==
    /\ At(a, "fmt_write")
    /\ deleteBlobs
    /\ \E ok \in BOOLEAN :
         task' = [task EXCEPT ![a] =
                    IF ok /\ tmpDir THEN [@ EXCEPT !.pc = "fmt_cmd"]
                    ELSE [@ EXCEPT !.pc = "stopping", !.todo = <<errMsg>>]]
    /\ UNCHANGED <<mu, closed, ctx, done, wg, tmpDir, frames, pc, cur, calls, returned>>

\* exec.go:231-233  handleFormat: writeFile("main.go").
FormatWrite(a) ==
    /\ At(a, "fmt_write")
    /\ \E ok \in BOOLEAN :
         task' = [task EXCEPT ![a] =
                    IF ok /\ tmpDir THEN [@ EXCEPT !.pc = "fmt_cmd"]
                    ELSE [@ EXCEPT !.pc = "stopping", !.todo = <<errMsg>>]]
    /\ UNCHANGED <<mu, closed, ctx, done, wg, bids, bs, tmpDir, frames, pc, cur, calls, returned>>

\* handleFormat without its deferred sendMsg(statusStopped): a failed gofmt
\* ends the goroutine with no StatusStopped frame.
afterFormatNoDefer(t, ok) ==
    IF ok THEN [t EXCEPT !.pc = "fmt_read", !.child = NoChild]
    ELSE [t EXCEPT !.pc = "wgdone", !.child = NoChild,
                   !.todo = <<errMsg>> \o reportBadLines(t.bb)]

\* exec.go:235-238  what handleFormat does when gofmt has run.
afterFormat(t, ok) ==
    IF ok THEN [t EXCEPT !.pc = "fmt_read", !.child = NoChild]
    ELSE [t EXCEPT !.pc = "stopping", !.child = NoChild,
                   !.todo = <<errMsg>> \o reportBadLines(t.bb)]

\* exec.go:241-247  readFile("main.go") and the frames of a successful Format.
FormatRead(a) ==
    /\ At(a, "fmt_read")
    /\ \E ok \in BOOLEAN :
         task' = [task EXCEPT ![a] =
                    IF ok /\ tmpDir
                      THEN [@ EXCEPT !.pc = "stopping",
                                     !.todo = <<Msg(actionFormat, "code"), Msg(clearOutput, ""),
                                                Msg(statusUpdate, "Source formatted.")>>]
                      ELSE [@ EXCEPT !.pc = "stopping", !.todo = <<errMsg>>]]
    /\ UNCHANGED <<mu, closed, ctx, done, wg, bids, bs, tmpDir, frames, pc, cur, calls, returned>>

\* exec.go:226, 254  the deferred ex.sendMsg(statusStopped, "").
TaskStopped(a) ==
    /\ At(a, "stopping")
    /\ sendMsg(TaskOf(a), a, statusStopped, "")
    /\ task' = [task EXCEPT ![a].pc = "wgdone"]
    /\ UNCHANGED <<mu, closed, ctx, done, wg, bids, bs, tmpDir, pc, cur, calls, returned>>

\* exec.go:225, 253  the deferred ex.wg.Done().  Of the locals of the
\* goroutine that is over only its kind and the id of its last blob are kept.
TaskDone(a) ==
    /\ At(a, "wgdone")
    /\ wg' = wg - 1
    /\ task' = [task EXCEPT ![a] = [NoTask EXCEPT !.pc = "done", !.kind = task[a].kind, !.id = task[a].id]]
    /\ UNCHANGED <<mu, closed, ctx, done, bids, bs, tmpDir, frames, pc, cur, calls, returned>>

\* exec.go:257-262  handleRun: empty the scratch directory, deleteBlobs.
RunPurge(a) ==
    /\ At(a, "run_purge")
    /\ deleteBlobs
    /\ task' = [task EXCEPT ![a].pc = "run_write"]
    /\ UNCHANGED <<mu, closed, ctx, done, wg, tmpDir, frames, pc, cur, calls, returned>>

\* exec.go:265-267  writeFile("temp.go").
RunWrite(a) ==
    /\ At(a, "run_write")
    /\ \E ok \in BOOLEAN :
         task' = [task EXCEPT ![a] =
                    IF ok /\ tmpDir THEN [@ EXCEPT !.pc = "run_parse"]
                    ELSE [@ EXCEPT !.pc = "stopping", !.todo = <<errMsg>>]]
    /\ UNCHANGED <<mu, closed, ctx, done, wg, bids, bs, tmpDir, frames, pc, cur, calls, returned>>

\* exec.go:268-328  parseFile, the argument lists, the rename of temp.go.
RunParse(a) ==
    /\ At(a, "run_parse")
    /\ LET p == parseFile(Programs[task[a].prog])
           r == setupRun(p)
       IN  \E renamed \in BOOLEAN :
             task' = [task EXCEPT ![a] =
                 IF ~p.ok THEN [@ EXCEPT !.pc = "stopping", !.todo = p.msgs]
                 ELSE IF ~r.ok THEN [@ EXCEPT !.pc = "stopping", !.todo = r.msgs]
                 ELSE IF ~(renamed /\ tmpDir)
                   THEN [@ EXCEPT !.pc = "stopping", !.todo = r.msgs \o <<errMsg>>]
                 ELSE [@ EXCEPT !.pc = "run_loop", !.todo = r.msgs, !.hasMain = p.hasMain,
                                !.gcs = r.gcs, !.buildArgs = r.buildArgs,
                                !.execArgs = r.execArgs, !.profArgs = p.profArgs,
                                !.verbose = r.verbose, !.i = 1]]
    /\ UNCHANGED <<mu, closed, ctx, done, wg, bids, bs, tmpDir, frames, pc, cur, calls, returned>>

\* exec.go:348, 364, 371-372  the end of one iteration of the toolchain loop.
nextToolchain(t, msgs) ==
    [t EXCEPT !.pc = "run_loop", !.i = @ + 1, !.todo = msgs, !.child = NoChild]

reportDone == Msg(statusUpdate, "Report generation done.")

blankLine == Msg(statusUpdate, "\n")

\* exec.go:527-540  the next runProf call, or the end of processProfiles.
nextView(t, msgs) ==
    IF t.views = <<>> THEN nextToolchain(t, msgs \o <<reportDone, blankLine>>)
    ELSE [t EXCEPT !.pc = "pprof_cmd", !.todo = msgs, !.child = NoChild]

\* handleRun returning on a failed build instead of going on to the next
\* toolchain.
afterBuildFatal(t, ok) ==
    IF ~ok THEN [t EXCEPT !.pc = "stopping", !.child = NoChild,
                          !.todo = <<errMsg>> \o reportBadLines(t.bb)]
    ELSE [t EXCEPT !.pc = "exec_cmd", !.child = NoChild,
                   !.todo = <<IF t.verbose THEN Msg(statusUpdate, "Starting program...")
                                           ELSE Msg(clearOutput, "")>>]

\* exec.go:346-361  what handleRun does when the compiler has run.
afterBuild(t, ok) ==
    IF ~ok THEN nextToolchain(t, <<errMsg>> \o reportBadLines(t.bb))
    ELSE [t EXCEPT !.pc = "exec_cmd", !.child = NoChild,
                   !.todo = <<IF t.verbose THEN Msg(statusUpdate, "Starting program...")
                                           ELSE Msg(clearOutput, "")>>]

\* exec.go:362-371, 458  what handleRun does when the program has run.
afterExec(t, ok) ==
    IF ~ok THEN nextToolchain(t, <<errMsg, blankLine>>)
    ELSE IF t.profArgs = <<>>
      THEN nextToolchain(t, <<Msg(statusUpdate, "Program exited."), blankLine>>)
    ELSE [t EXCEPT !.pc = "prof_write", !.child = NoChild,
                   !.todo = <<Msg(statusUpdate, "Program exited."),
                              Msg(statusUpdate, "Generating performance reports...")>>]

\* exec.go:485-487  processProfiles when prof_copy.go has been built.
afterCopy(t, ok) ==
    IF ~ok THEN nextToolchain(t, <<errMsg, reportDone, blankLine>>)
    ELSE nextView([t EXCEPT !.views = profViews(t.profArgs)], <<>>)

\* exec.go:500-503  runProf when go tool pprof has run.
afterPprof(t, ok) ==
    IF ~ok THEN nextView([t EXCEPT !.views = Tail(@)], <<Msg(statusUpdate, "Dropped report")>>)
    ELSE [t EXCEPT !.pc = "prof_read", !.child = NoChild]

\* The statement after a cmd.Run() that returned (ok: with a nil error).
afterCmd(t, ok) ==
    CASE t.pc = "fmt_cmd" -> afterFormat(t, ok)
      [] t.pc = "build_cmd" -> afterBuild(t, ok)
      [] t.pc = "exec_cmd" -> afterExec(t, ok)
      [] t.pc = "copy_cmd" -> afterCopy(t, ok)
      [] t.pc = "pprof_cmd" -> afterPprof(t, ok)

CmdPcs == {"fmt_cmd", "build_cmd", "exec_cmd", "copy_cmd", "pprof_cmd"}

\* The command line of the process the goroutine is about to start.
cmdArgs(t) ==
    CASE t.pc = "fmt_cmd" -> <<fmtBin, "-w", "main.go">>
      [] t.pc = "build_cmd" -> <<t.gcs[t.i]>> \o t.buildArgs
      [] t.pc = "exec_cmd" -> t.execArgs
      [] t.pc = "copy_cmd" -> <<gcBin, "build", "prof_copy.go">>
      [] t.pc = "pprof_cmd" -> <<gcBin, "tool", "pprof", Head(t.views)>>

\* A read of ex.ctx by the goroutine of call a.  The field is written by
\* Start under ex.mu and read here without it: the read yields the context
\* installed by the Start that created the goroutine or any later one.
CtxRead(a) == task[a].ctx0 .. ctx

\* The top of the toolchain loop without the cancelation check.
RunLoopNoCheck(a) ==
    /\ At(a, "run_loop")
    /\ task' = [task EXCEPT ![a] =
                  IF @.i > Len(@.gcs) THEN [@ EXCEPT !.pc = "stopping"]
                  ELSE [@ EXCEPT !.pc = "build_cmd",
                                 !.todo = <<Msg(statusUpdate, "Compiling program...")>>]]
    /\ UNCHANGED <<mu, closed, ctx, done, wg, bids, bs, tmpDir, frames, pc, cur, calls, returned>>

\* exec.go:331-344  top of the toolchain loop: the cancelation check and the
\* "Compiling program..." frame.
RunLoop(a) ==
    /\ At(a, "run_loop")
    /\ \E x \in CtxRead(a) :
         task' = [task EXCEPT ![a] =
                    IF @.i > Len(@.gcs) \/ x \in done THEN [@ EXCEPT !.pc = "stopping"]
                    ELSE [@ EXCEPT !.pc = "build_cmd",
                                   !.todo = <<Msg(statusUpdate, "Compiling program...")>>]]
    /\ UNCHANGED <<mu, closed, ctx, done, wg, bids, bs, tmpDir, frames, pc, cur, calls, returned>>

\* exec.go:176-180, 495-500  exec.CommandContext(ex.ctx, ...) and cmd.Run():
\* with a context already canceled Run fails at once, otherwise the process
\* starts.  Only the user's program (./main, ./main.test) may run forever.
CmdStart(a) ==
    /\ task[a].pc \in CmdPcs
    /\ task[a].todo = <<>>
    /\ task[a].child.st = "none"
    /\ \E x \in CtxRead(a) :
         IF x \in done
           THEN task' = [task EXCEPT ![a] = afterCmd(@, FALSE)]
           ELSE \E forever \in (IF task[a].pc = "exec_cmd" THEN BOOLEAN ELSE {FALSE}) :
                  task' = [task EXCEPT ![a].child =
                              [st |-> "run", ctx |-> x, role |-> task[a].pc,
                               args |-> cmdArgs(task[a]), forever |-> forever, wrote |-> 0],
                           ![a].bb = FALSE]
    /\ UNCHANGED <<mu, closed, ctx, done, wg, bids, bs, tmpDir, frames, pc, cur, calls, returned>>

\* exec.go:105-110, 178-179  the process writes to its stdout or stderr: the
\* chunk is sent as a frame; the stderr of gofmt and of the compiler is also
\* captured (bb) and may hold a main.go:N diagnostic.
ChildWrite(a) ==
    /\ task[a].child.st = "run"
    /\ task[a].child.role # "pprof_cmd"
    /\ task[a].child.wrote < MaxChunks
    /\ \E kind \in {appendStdout, appendStderr} :
         /\ sendMsg(TaskOf(a), a, kind, "bytes")
         /\ \E line \in BOOLEAN :
              task' = [task EXCEPT ![a].child.wrote = @ + 1,
                                   ![a].bb = IF kind = appendStderr /\ line
                                                /\ task[a].child.role \in {"fmt_cmd", "build_cmd"}
                                             THEN TRUE ELSE @]
    /\ UNCHANGED <<mu, closed, ctx, done, wg, bids, bs, tmpDir, pc, cur, calls, returned>>

\* The process exits by itself, with status 0 (ok) or not.
ChildExit(a) ==
    /\ task[a].child.st = "run"
    /\ ~task[a].child.forever
    /\ \E ok \in (IF task[a].child.role = "build_cmd" /\ ~compiles(Programs[task[a].prog])
                   THEN {FALSE} ELSE BOOLEAN) :
         task' = [task EXCEPT ![a] = afterCmd(@, ok)]
    /\ UNCHANGED <<mu, closed, ctx, done, wg, bids, bs, tmpDir, frames, pc, cur, calls, returned>>

\* exec.CommandContext: the process is killed once its context is canceled.
ChildKill(a) ==
    /\ task[a].child.st = "run"
    /\ task[a].child.ctx \in done
    /\ task' = [task EXCEPT ![a] = afterCmd(@, FALSE)]
    /\ UNCHANGED <<mu, closed, ctx, done, wg, bids, bs, tmpDir, frames, pc, cur, calls, returned>>

\* exec.go:482-484  processProfiles: writeFile("prof_copy.go").
ProfWrite(a) ==
    /\ At(a, "prof_write")
    /\ \E ok \in BOOLEAN :
         task' = [task EXCEPT ![a] =
                    IF ok /\ tmpDir THEN [@ EXCEPT !.pc = "copy_cmd"]
                    ELSE nextToolchain(@, <<errMsg, reportDone, blankLine>>)]
    /\ UNCHANGED <<mu, closed, ctx, done, wg, bids, bs, tmpDir, frames, pc, cur, calls, returned>>

\* exec.go:505-517  runProf: read the report; empty: dropped silently; above
\* 16 MiB: dropped with a status; otherwise inserted into the blob store.
ProfRead(a) ==
    /\ At(a, "prof_read")
    /\ \/ /\ task' = [task EXCEPT ![a] = nextView([@ EXCEPT !.views = Tail(@)], <<>>)]
          /\ UNCHANGED bs
       \/ /\ task' = [task EXCEPT ![a] =
                        nextView([@ EXCEPT !.views = Tail(@)], <<Msg(statusUpdate, "Dropped report")>>)]
          /\ UNCHANGED bs
       \/ \E d \in Data :
            /\ bs' = Insert(bs, [data |-> d, mime |-> mimeOf(Head(task[a].views))])
            /\ task' = [task EXCEPT ![a].pc = "prof_lock", ![a].id = BlobId(d)]
    /\ UNCHANGED <<mu, closed, ctx, done, wg, bids, tmpDir, frames, pc, cur, calls, returned>>

\* exec.go:518  ex.mu.Lock().
ProfLock(a) ==
    /\ At(a, "prof_lock")
    /\ mu = NoOne
    /\ mu' = TaskOf(a)
    /\ task' = [task EXCEPT ![a].pc = "prof_append"]
    /\ UNCHANGED <<closed, ctx, done, wg, bids, bs, tmpDir, frames, pc, cur, calls, returned>>

\* exec.go:519-523  append the id to ex.bids, unlock, send ReportProfile.
ProfAppend(a) ==
    /\ At(a, "prof_append")
    /\ bids' = Append(bids, task[a].id)
    /\ mu' = NoOne
    /\ task' = [task EXCEPT ![a] =
                  nextView([@ EXCEPT !.views = Tail(@)], <<Msg(reportProfile, @.id)>>)]
    /\ UNCHANGED <<closed, ctx, done, wg, bs, tmpDir, frames, pc, cur, calls, returned>>

\* ------------------------------------------------------------- the callers
\* A goroutine (the websocket read loop, or a test) invokes an operation of
\* the executor.  after = the calls that had returned when this one began.
Invoke(c, op, action, prog) ==
    /\ pc[c] = "idle"
    /\ calls < limit
    /\ calls' = calls + 1
    /\ cur' = [cur EXCEPT ![c] = [op |-> op, id |-> calls + 1, action |-> action,
                                  prog |-> prog, ctx |-> 0]]
    /\ called' = [called EXCEPT ![calls + 1] =
                     [op |-> op, after |-> returned,
                      busy |-> {a \in CallIds : task[a].pc \notin {"unborn", "done"}}]]

Return(c) ==
    /\ pc' = [pc EXCEPT ![c] = "idle"]
    /\ returned' = returned \cup {cur[c].id}

\* A Start that does not call ex.Stop() first.
StartSkipsStop(c, action, prog) ==
    /\ Invoke(c, "Start", action, prog)
    /\ pc' = [pc EXCEPT ![c] = "start_lock"]
    /\ UNCHANGED <<mu, closed, ctx, done, wg, bids, bs, tmpDir, frames, task, returned>>

\* exec.go:118-119  Start(action, data) with the source prog as data; it
\* begins by calling ex.Stop().
StartWith(c, action, prog) ==
    /\ Invoke(c, "Start", action, prog)
    /\ pc' = [pc EXCEPT ![c] = "stop_lock"]
    /\ UNCHANGED <<mu, closed, ctx, done, wg, bids, bs, tmpDir, frames, task, returned>>

StartCall(c) ==
    \E action \in {actionFormat, actionRun, "Bogus"} :
      \E prog \in (IF action = actionRun THEN ProgIds ELSE {0}) : StartWith(c, action, prog)

\* exec.go:145  a direct call of Stop.
StopCall(c) ==
    /\ Invoke(c, "Stop", "", 0)
    /\ pc' = [pc EXCEPT ![c] = "stop_lock"]
    /\ UNCHANGED <<mu, closed, ctx, done, wg, bids, bs, tmpDir, frames, task, returned>>

\* exec.go:146  ex.mu.Lock() in Stop.
StopLock(c) ==
    /\ pc[c] = "stop_lock"
    /\ mu = NoOne
    /\ mu' = c
    /\ pc' = [pc EXCEPT ![c] = "stop_cancel"]
    /\ UNCHANGED <<closed, ctx, done, wg, bids, bs, tmpDir, frames, cur, calls, task, returned, called>>

\* A Stop that does not call ex.cancel().
StopCancelNoCancel(c) ==
    /\ pc[c] = "stop_cancel"
    /\ mu' = NoOne
    /\ pc' = [pc EXCEPT ![c] = "stop_wait"]
    /\ UNCHANGED <<closed, ctx, done, wg, bids, bs, tmpDir, frames, cur, calls, task, returned, called>>

\* exec.go:147-148  ex.cancel(); ex.mu.Unlock().
StopCancel(c) ==
    /\ pc[c] = "stop_cancel"
    /\ done' = done \cup {ctx}
    /\ mu' = NoOne
    /\ pc' = [pc EXCEPT ![c] = "stop_wait"]
    /\ UNCHANGED <<closed, ctx, wg, bids, bs, tmpDir, frames, cur, calls, task, returned, called>>

\* A Stop that does not call ex.wg.Wait().
StopNoWait(c) ==
    /\ pc[c] = "stop_wait"
    /\ IF cur[c].op = "Start"
         THEN /\ pc' = [pc EXCEPT ![c] = "start_lock"]
              /\ UNCHANGED returned
         ELSE Return(c)
    /\ UNCHANGED <<mu, closed, ctx, done, wg, bids, bs, tmpDir, frames, cur, calls, task, called>>

\* exec.go:149  ex.wg.Wait(); then Stop returns, to its caller or into Start.
StopWait(c) ==
    /\ pc[c] = "stop_wait"
    /\ wg = 0
    /\ IF cur[c].op = "Start"
         THEN /\ pc' = [pc EXCEPT ![c] = "start_lock"]
              /\ UNCHANGED returned
         ELSE Return(c)
    /\ UNCHANGED <<mu, closed, ctx, done, wg, bids, bs, tmpDir, frames, cur, calls, task, called>>

\* exec.go:122  ex.mu.Lock() in Start.
StartLock(c) ==
    /\ pc[c] = "start_lock"
    /\ mu = NoOne
    /\ mu' = c
    /\ pc' = [pc EXCEPT ![c] = "start_check"]
    /\ UNCHANGED <<closed, ctx, done, wg, bids, bs, tmpDir, frames, cur, calls, task, returned, called>>

\* exec.go:123-126  the executor is closed: report it and return.  The
\* return statement is reached with ex.mu still locked.
StartClosed(c) ==
    /\ pc[c] = "start_check"
    /\ closed
    /\ sendMsg(c, cur[c].id, statusUpdate, "Unexpected error: server is shutdown")
    /\ Return(c)
    /\ UNCHANGED <<mu, closed, ctx, done, wg, bids, bs, tmpDir, cur, calls, task, called>>

\* exec.go:127-129  install a fresh context, wg.Add(1), unlock.
StartSetup(c) ==
    /\ pc[c] = "start_check"
    /\ ~closed
    /\ ctx' = ctx + 1
    /\ wg' = wg + 1
    /\ mu' = NoOne
    /\ cur' = [cur EXCEPT ![c].ctx = ctx + 1]
    /\ pc' = [pc EXCEPT ![c] = "start_send"]
    /\ UNCHANGED <<closed, done, bids, bs, tmpDir, frames, calls, task, returned, called>>

\* exec.go:131-141  the switch on the action: the first statement of the arm.
StartSend(c) ==
    /\ pc[c] = "start_send"
    /\ IF cur[c].action \in {actionFormat, actionRun}
         THEN /\ sendMsg(c, cur[c].id, statusStarted, "")
              /\ pc' = [pc EXCEPT ![c] = "start_go"]
         ELSE /\ sendMsg(c, cur[c].id, statusUpdate, "Unknown action")
              /\ pc' = [pc EXCEPT ![c] = "start_done"]
    /\ UNCHANGED <<mu, closed, ctx, done, wg, bids, bs, tmpDir, cur, calls, task, returned, called>>

\* exec.go:134,137  go ex.handleFormat(data) / go ex.handleRun(data).
StartGo(c) ==
    /\ pc[c] = "start_go"
    /\ task' = [task EXCEPT ![cur[c].id] = NewTask(cur[c].action, cur[c].prog, cur[c].ctx)]
    /\ Return(c)
    /\ UNCHANGED <<mu, closed, ctx, done, wg, bids, bs, tmpDir, frames, cur, calls, called>>

\* exec.go:140  default arm: ex.wg.Done().
StartUnknown(c) ==
    /\ pc[c] = "start_done"
    /\ wg' = wg - 1
    /\ Return(c)
    /\ UNCHANGED <<mu, closed, ctx, done, bids, bs, tmpDir, frames, cur, calls, task, called>>

\* exec.go:153-154  Close: ex.mu.Lock().
CloseCall(c) ==
    /\ Invoke(c, "Close", "", 0)
    /\ pc' = [pc EXCEPT ![c] = "close_lock"]
    /\ UNCHANGED <<mu, closed, ctx, done, wg, bids, bs, tmpDir, frames, task, returned>>

CloseLock(c) ==
    /\ pc[c] = "close_lock"
    /\ mu = NoOne
    /\ mu' = c
    /\ pc' = [pc EXCEPT ![c] = "close_set"]
    /\ UNCHANGED <<closed, ctx, done, wg, bids, bs, tmpDir, frames, cur, calls, task, returned, called>>

\* exec.go:155-157  ex.closed = true; ex.cancel(); ex.mu.Unlock().
CloseSet(c) ==
    /\ pc[c] = "close_set"
    /\ closed' = TRUE
    /\ done' = done \cup {ctx}
    /\ mu' = NoOne
    /\ pc' = [pc EXCEPT ![c] = "close_wait"]
    /\ UNCHANGED <<ctx, wg, bids, bs, tmpDir, frames, cur, calls, task, returned, called>>

\* exec.go:158  ex.wg.Wait().
CloseWait(c) ==
    /\ pc[c] = "close_wait"
    /\ wg = 0
    /\ pc' = [pc EXCEPT ![c] = "close_blobs"]
    /\ UNCHANGED <<mu, closed, ctx, done, wg, bids, bs, tmpDir, frames, cur, calls, task, returned, called>>

\* exec.go:159, 164-171  ex.deleteBlobs().
CloseBlobs(c) ==
    /\ pc[c] = "close_blobs"
    /\ deleteBlobs
    /\ pc' = [pc EXCEPT ![c] = "close_rm"]
    /\ UNCHANGED <<mu, closed, ctx, done, wg, tmpDir, frames, cur, calls, task, returned, called>>

\* exec.go:160  os.RemoveAll(ex.tmpDir).
CloseRemove(c) ==
    /\ pc[c] = "close_rm"
    /\ tmpDir' = FALSE
    /\ Return(c)
    /\ UNCHANGED <<mu, closed, ctx, done, wg, bids, bs, frames, cur, calls, task, called>>

\* ------------------------------------------------------ snippet database
defaultID == 1
defaultName == "Default snippet"
defaultCode == "package main"

\* time.Time values: 0 is the zero time, the clock reads 1, 2, ...
zeroTime == 0

\* int64 as a two's-complement integer of IntBits bits: maxID stands for
\* math.MaxInt64, and int64 arithmetic wraps around.
maxID == 2^(IntBits - 1) - 1

minID == 0 - 2^(IntBits - 1)

Wrap(x) == ((x - minID) % 2^IntBits) + minID

\* snippets.go:35  maxTime, later than every reading of the clock.
maxTime == MaxTime + 2

\* strings.ToLower on the names the model uses.
ToLower(n) ==
    IF n = "Default snippet" THEN "default snippet"
    ELSE IF n = "Tea" THEN "tea"
    ELSE n

Names == {"", defaultName, "Tea", "\n"}
Codes == {"", "code"}
Ids == -1..3
Times == {zeroTime, 1}

\* The struct snippet.
snippet(id, c, m, n, code) == [ID |-> id, Created |-> c, Modified |-> m, Name |-> n, Code |-> code]

\* The snippets a caller passes to Create and Update: without an id and with
\* every name and code; with an id (negative, the default one, another one);
\* with a new name for the default snippet; with a time set.
Snippets ==
    {snippet(0, zeroTime, zeroTime, n, "") : n \in Names}
      \cup {snippet(0, zeroTime, zeroTime, n, code) : n \in {"", "Tea"}, code \in Codes}
      \cup {snippet(id, zeroTime, zeroTime, "", "code") : id \in {-1, defaultID, 2}}
      \cup {snippet(id, zeroTime, zeroTime, "Tea", "") : id \in {-1, defaultID}}
      \cup {snippet(0, c, m, "Tea", "") : c \in Times, m \in Times}

\* snippets.go:47-55  a snippet whose fields all hold their zero value.
zeroSnippet == snippet(0, zeroTime, zeroTime, "", "")

Fields == {"ID", "Created", "Modified", "Name", "Code"}

\* An encoding that leaves the code out.
MarshalBinaryOmitsCode(s) == [f \in {g \in Fields \ {"Code"} : s[g] # zeroSnippet[g]} |-> s[f]]

\* snippets.go:57-63  MarshalBinary: the gob encoding of a struct holds the
\* fields that differ from their zero value.
MarshalBinary(s) == [f \in {g \in Fields : s[g] # zeroSnippet[g]} |-> s[f]]

\* snippets.go:65-70  s.UnmarshalBinary(v): the encoded fields are stored
\* into s, the other fields of s are left as they are.
UnmarshalBinary(s, v) == [f \in Fields |-> IF f \in DOMAIN v THEN v[f] ELSE s[f]]

\* "var s snippet" followed by s.UnmarshalBinary(v).
Decode(v) == UnmarshalBinary(zeroSnippet, v)

\* snippets.go:72-77  idKey: the big-endian bytes of uint64(id+MaxInt64+1), as
\* the unsigned number they spell.
idKey(id) == (id + maxID + 1) % 2^IntBits

\* snippets.go:79-86  dualKey: the bytes of the time followed by the bytes
\* of the id key.
dualKey(id, mod) == <<mod, idKey(id)>>

\* The keys as bytes.  A byte has ByteBits bits; an int64 takes KeyLen bytes
\* (8 in the code), the uint32 of the nanoseconds NanoLen.
ByteBits == 2

KeyLen == (IntBits + ByteBits - 1) \div ByteBits

NanoLen == 1

\* The largest nanosecond count of a time (999999999 in the code).
maxNano == 2^(ByteBits * NanoLen) - 1

\* binary.BigEndian.PutUint64 / PutUint32: the n bytes of u, the most
\* significant one first.
PutUint(u, n) == [i \in 1..n |-> (u \div 2^(ByteBits * (n - i))) % 2^ByteBits]

\* bytes.Compare: -1, 0 or 1 as a is below, equal to or above b, byte by byte.
RECURSIVE bytesCompare(_, _)
bytesCompare(a, b) ==
    IF a = <<>> THEN (IF b = <<>> THEN 0 ELSE -1)
    ELSE IF b = <<>> THEN 1
    ELSE IF Head(a) < Head(b) THEN -1
    ELSE IF Head(a) > Head(b) THEN 1
    ELSE bytesCompare(Tail(a), Tail(b))

\* snippets.go:72-77  idKey, byte by byte.
idKeyBytes(id) == PutUint(idKey(id), KeyLen)

\* A dualKey that converts the seconds and the id to uint64 as they are.
dualKeyBytesNoOffset(id, sec, nsec) ==
    PutUint(sec % 2^IntBits, KeyLen) \o PutUint(nsec, NanoLen) \o PutUint(id % 2^IntBits, KeyLen)

\* snippets.go:79-86  dualKey, byte by byte: uint64(mod.Unix()+MaxInt64+1),
\* uint32(mod.Nanosecond()), uint64(id+MaxInt64+1), the int64 sums wrapping.
dualKeyBytes(id, sec, nsec) ==
    PutUint(Wrap(Wrap(sec + maxID) + 1) % 2^IntBits, KeyLen)
      \o PutUint(nsec, NanoLen)
      \o PutUint(Wrap(Wrap(id + maxID) + 1) % 2^IntBits, KeyLen)

\* The (modified, id) pairs whose keys are compared: every second count of an
\* int64 (the zero time of Go is a negative one), the first and the last
\* nanosecond, the ids around zero and at both ends of int64 (maxID is the id
\* of the cursor that finds everything).
Pair(sec, nsec, id) == [sec |-> sec, nsec |-> nsec, id |-> id]

KeyPairs == {Pair(sec, nsec, id) : sec \in minID..maxID, nsec \in {0, maxNano},
                                  id \in {minID, -1, 0, 1, maxID}}

NoCmp == [done |-> FALSE, dual |-> 0, ids |-> 0]

InitKeysWith(S) ==
    /\ pairA \in S
    /\ pairB \in S
    /\ cmp = NoCmp

InitKeys == InitKeysWith({Pair(0, 0, 0)})

\* snippets.go:172-186  the comparison the cursor of the by-modified bucket
\* makes between the keys of two pairs, and that of the by-identity bucket
\* between the keys of their ids.
CompareKeys ==
    /\ ~cmp.done
    /\ cmp' = [done |-> TRUE,
               dual |-> bytesCompare(dualKeyBytes(pairA.id, pairA.sec, pairA.nsec),
                                     dualKeyBytes(pairB.id, pairB.sec, pairB.nsec)),
               ids |-> bytesCompare(idKeyBytes(pairA.id), idKeyBytes(pairB.id))]
    /\ UNCHANGED <<pairA, pairB>>

\* A comparison that also lets equal keys through.
KeyNotGreater(a, b) == a[1] < b[1] \/ (a[1] = b[1] /\ a[2] <= b[2])

\* bytes.Compare(a, b) < 0 on dual keys.
KeyLess(a, b) == a[1] < b[1] \/ (a[1] = b[1] /\ a[2] < b[2])

Result(op, err, id) == [op |-> op, err |-> err, id |-> id]

\* snippets.go:128-154  the default snippet openDatabase stores in an empty file.
defaultSnippet == snippet(defaultID, zeroTime, zeroTime, defaultName, defaultCode)

\* snippets.go:97-158  openDatabase on a directory without a database file.
InitStore ==
    /\ bktByID = (idKey(defaultID) :> MarshalBinary(defaultSnippet))
    /\ bktByDate = {dualKey(defaultID, zeroTime)}
    /\ lastID = defaultID
    /\ names = [id \in {} |-> ""]
    /\ now = 1
    /\ ops = 0
    /\ res = Result("open", "", 0)
    /\ created = <<>>

\* snippets.go:431-433, 97-158  Close, then openDatabase on the same file:
\* lastID is the id of the record under the last key of SnippetsByID, names
\* is rebuilt from the records.
Reopen ==
    /\ ops < MaxOps
    /\ ops' = ops + 1
    /\ LET last == IF DOMAIN bktByID = {} THEN -1
                   ELSE Decode(bktByID[Max(DOMAIN bktByID)]).ID
       IN  /\ names' = [id \in {Decode(bktByID[k]).ID : k \in DOMAIN bktByID} |->
                          ToLower(Decode(bktByID[Max({k \in DOMAIN bktByID :
                                                       Decode(bktByID[k]).ID = id})]).Name)]
           /\ IF last = -1
                THEN /\ bktByID' = MapPut(bktByID, idKey(defaultID), MarshalBinary(defaultSnippet))
                     /\ bktByDate' = bktByDate \cup {dualKey(defaultID, zeroTime)}
                     /\ lastID' = defaultID
                ELSE /\ lastID' = last
                     /\ UNCHANGED <<bktByID, bktByDate>>
    /\ res' = Result("open", "", 0)
    /\ UNCHANGED <<now, created>>

\* The clock advances between two operations.
Tick ==
    /\ now < MaxTime
    /\ now' = now + 1
    /\ UNCHANGED <<bktByID, bktByDate, lastID, names, ops, res, created>>

\* Create taking the next id before it looks at its argument.
CreateCountsFirst(s) ==
    /\ ops < MaxOps
    /\ ops' = ops + 1
    /\ LET id == Wrap(lastID + 1)
           s2 == [s EXCEPT !.ID = id, !.Created = now, !.Modified = now]
       IN  /\ lastID' = id
           /\ IF s.Name = "" \/ s.ID # 0
                THEN /\ res' = Result("Create", "request", 0)
                     /\ UNCHANGED <<bktByID, bktByDate, names, created>>
                ELSE /\ bktByID' = MapPut(bktByID, idKey(id), MarshalBinary(s2))
                     /\ bktByDate' = bktByDate \cup {dualKey(id, now)}
                     /\ names' = IF id > 0 THEN MapPut(names, id, ToLower(s.Name)) ELSE names
                     /\ res' = Result("Create", "", id)
                     /\ created' = Append(created, id)
    /\ UNCHANGED now

\* snippets.go:290-320  database.Create.
Create(s) ==
    /\ ops < MaxOps
    /\ ops' = ops + 1
    /\ IF s.Name = "" \/ s.ID # 0
         THEN /\ res' = Result("Create", "request", 0)
              /\ UNCHANGED <<bktByID, bktByDate, lastID, names, created>>
         ELSE LET id == Wrap(lastID + 1)
                  s2 == [s EXCEPT !.ID = id, !.Created = now, !.Modified = now]
              IN  /\ lastID' = id
                  /\ bktByID' = MapPut(bktByID, idKey(id), MarshalBinary(s2))
                  /\ bktByDate' = bktByDate \cup {dualKey(id, now)}
                  /\ names' = IF id > 0 THEN MapPut(names, id, ToLower(s.Name)) ELSE names
                  /\ res' = Result("Create", "", id)
                  /\ created' = Append(created, id)
    /\ UNCHANGED now

\* snippets.go:324-335  database.Retrieve.
Retrieve(id) ==
    IF idKey(id) \in DOMAIN bktByID
      THEN [err |-> "", s |-> Decode(bktByID[idKey(id)])]
      ELSE [err |-> "notfound", s |-> zeroSnippet]

\* snippets.go:341-351  the checks Update makes on its arguments.
updateRejects(s, id) ==
    \/ s.ID = 0 /\ id = 0
    \/ s.ID > 0 /\ s.ID # id
    \/ s.ID = defaultID /\ s.Name # "" /\ s.Name # defaultName
    \/ s.Modified # zeroTime \/ s.Created # zeroTime

\* An overlay that also takes the empty fields of s.
overlayEverything(s2, s) == [s2 EXCEPT !.Name = s.Name, !.Code = s.Code]

\* snippets.go:364-370  the name and the code of s, where not empty, replace
\* those of the stored snippet s2.
overlay(s2, s) ==
    [s2 EXCEPT !.Name = IF s.Name # "" THEN s.Name ELSE @,
               !.Code = IF s.Code # "" THEN s.Code ELSE @]

\* An Update that inserts the new by-modified key and leaves the old one.
UpdateKeepsOldKey(s, id) ==
    /\ ops < MaxOps
    /\ ops' = ops + 1
    /\ IF updateRejects(s, id)
         THEN /\ res' = Result("Update", "request", id)
              /\ UNCHANGED <<bktByID, bktByDate, names>>
         ELSE IF idKey(id) \notin DOMAIN bktByID
           THEN /\ res' = Result("Update", "notfound", id)
                /\ UNCHANGED <<bktByID, bktByDate, names>>
         ELSE LET old == Decode(bktByID[idKey(id)])
                  s2 == [overlay(old, s) EXCEPT !.Modified = now]
              IN  /\ bktByID' = [bktByID EXCEPT ![idKey(id)] = MarshalBinary(s2)]
                  /\ bktByDate' = bktByDate \cup {dualKey(s2.ID, s2.Modified)}
                  /\ names' = IF id > 0 /\ s.Name # ""
                                THEN MapPut(names, id, ToLower(s.Name)) ELSE names
                  /\ res' = Result("Update", "", id)
    /\ UNCHANGED <<lastID, now, created>>

\* snippets.go:341-395  database.Update.
Update(s, id) ==
    /\ ops < MaxOps
    /\ ops' = ops + 1
    /\ IF updateRejects(s, id)
         THEN /\ res' = Result("Update", "request", id)
              /\ UNCHANGED <<bktByID, bktByDate, names>>
         ELSE IF idKey(id) \notin DOMAIN bktByID
           THEN /\ res' = Result("Update", "notfound", id)
                /\ UNCHANGED <<bktByID, bktByDate, names>>
         ELSE LET old == Decode(bktByID[idKey(id)])
                  s2 == [overlay(old, s) EXCEPT !.Modified = now]
              IN  /\ bktByID' = [bktByID EXCEPT ![idKey(id)] = MarshalBinary(s2)]
                  /\ bktByDate' = (bktByDate \ {dualKey(old.ID, old.Modified)})
                                     \cup {dualKey(s2.ID, s2.Modified)}
                  /\ names' = IF id > 0 /\ s.Name # ""
                                THEN MapPut(names, id, ToLower(s.Name)) ELSE names
                  /\ res' = Result("Update", "", id)
    /\ UNCHANGED <<lastID, now, created>>

\* A Delete that takes the snippet out of the by-modified bucket and out of
\* the name cache only.
DeleteKeepsRecord(id) ==
    /\ ops < MaxOps
    /\ ops' = ops + 1
    /\ IF id = 0 \/ id = defaultID
         THEN /\ res' = Result("Delete", "request", id)
              /\ UNCHANGED <<bktByID, bktByDate, names>>
         ELSE IF idKey(id) \notin DOMAIN bktByID
           THEN /\ res' = Result("Delete", "notfound", id)
                /\ UNCHANGED <<bktByID, bktByDate, names>>
         ELSE LET s == Decode(bktByID[idKey(id)])
              IN  /\ bktByID' = bktByID
                  /\ bktByDate' = bktByDate \ {dualKey(s.ID, s.Modified)}
                  /\ names' = MapDel(names, id)
                  /\ res' = Result("Delete", "", id)
    /\ UNCHANGED <<lastID, now, created>>

\* snippets.go:400-429  database.Delete.
Delete(id) ==
    /\ ops < MaxOps
    /\ ops' = ops + 1
    /\ IF id = 0 \/ id = defaultID
         THEN /\ res' = Result("Delete", "request", id)
              /\ UNCHANGED <<bktByID, bktByDate, names>>
         ELSE IF idKey(id) \notin DOMAIN bktByID
           THEN /\ res' = Result("Delete", "notfound", id)
                /\ UNCHANGED <<bktByID, bktByDate, names>>
         ELSE LET s == Decode(bktByID[idKey(id)])
              IN  /\ bktByID' = MapDel(bktByID, idKey(id))
                  /\ bktByDate' = bktByDate \ {dualKey(s.ID, s.Modified)}
                  /\ names' = MapDel(names, id)
                  /\ res' = Result("Delete", "", id)
    /\ UNCHANGED <<lastID, now, created>>

\* The snippets of the store.
Stored == {Decode(bktByID[k]) : k \in DOMAIN bktByID}

\* The order of QueryByModified: by modified time, then by id.
Older(a, b) == a.Modified < b.Modified \/ (a.Modified = b.Modified /\ a.ID < b.ID)

\* The keys of a bucket of id keys as a cursor walks them with Next.
RECURSIVE Ascending(_)
Ascending(S) ==
    IF S = {} THEN <<>>
    ELSE LET m == CHOOSE x \in S : \A y \in S : x <= y
         IN  <<m>> \o Ascending(S \ {m})

\* The keys of a bucket of dual keys as a cursor walks them with Prev.
RECURSIVE Descending(_)
Descending(S) ==
    IF S = {} THEN <<>>
    ELSE LET m == CHOOSE x \in S : \A y \in S \ {x} : KeyLess(y, x)
         IN  <<m>> \o Descending(S \ {m})

\* The loops of the queries stop appending once ss holds lim elements, where
\* lim is not negative.
Truncate(ss, lim) == IF lim >= 0 /\ Len(ss) > lim THEN SubSeq(ss, 1, lim) ELSE ss

QueryResult(err, ss) == [err |-> err, ss |-> ss]

\* snippets.go:201-222  database.QueryByID(after, lim).
QueryByID(after, lim) ==
    LET sk == idKey(Wrap(after + 1))
        ks == Truncate(Ascending({k \in DOMAIN bktByID : k >= sk}), lim)
    IN  QueryResult("", [i \in 1..Len(ks) |-> Decode(bktByID[ks[i]])])

\* snippets.go:162-197  database.QueryByModified(lastTime, after, lim). The
\* value of a dual key is read from SnippetsByID under the id bytes of the key;
\* a key without a record ends the query with the error of decoding nothing.
QueryByModified(lastTime, after, lim) ==
    LET cursor == IF lastTime = zeroTime /\ after = 0
                    THEN <<maxTime, maxID>> ELSE <<lastTime, after>>
        sk == dualKey(cursor[2], cursor[1])
        ks == Truncate(Descending({k \in bktByDate : KeyLess(k, sk)}), lim)
        stale == {i \in 1..Len(ks) : ks[i][2] \notin DOMAIN bktByID}
        n == IF stale = {} THEN Len(ks) ELSE Min(stale) - 1
    IN  QueryResult(IF stale = {} THEN "" ELSE "EOF",
                    [i \in 1..n |-> Decode(bktByID[ks[i][2]])])

\* The characters of the lower-case strings the model uses.
Chars(n) ==
    CASE n = "" -> <<>>
      [] n = "default snippet" ->
           <<"d", "e", "f", "a", "u", "l", "t", " ", "s", "n", "i", "p", "p", "e", "t">>
      [] n = "tea" -> <<"t", "e", "a">>
      [] n = "\n" -> <<"\n">>
      [] n = "e" -> <<"e">>
      [] n = "t" -> <<"t">>
      [] n = " " -> <<" ">>
      [] n = "p  e" -> <<"p", " ", " ", "e">>
      [] n = "pp" -> <<"p", "p">>

\* The byte of a character.
Ord(c) ==
    CASE c = "\n" -> 10 [] c = " " -> 32 [] c = "a" -> 97 [] c = "d" -> 100
      [] c = "e" -> 101 [] c = "f" -> 102 [] c = "i" -> 105 [] c = "l" -> 108
      [] c = "n" -> 110 [] c = "p" -> 112 [] c = "s" -> 115 [] c = "t" -> 116
      [] c = "u" -> 117

\* a < b on strings: the comparison of their bytes.
RECURSIVE StrLess(_, _)
StrLess(a, b) ==
    IF b = <<>> THEN FALSE
    ELSE IF a = <<>> THEN TRUE
    ELSE IF Head(a) = Head(b) THEN StrLess(Tail(a), Tail(b))
    ELSE Ord(Head(a)) < Ord(Head(b))

\* strings.Split(cs, " "): the pieces of cs between the spaces.
RECURSIVE Split(_)
Split(cs) ==
    IF \A i \in 1..Len(cs) : cs[i] # " " THEN <<cs>>
    ELSE LET i == CHOOSE j \in 1..Len(cs) : cs[j] = " " /\ \A h \in 1..(j - 1) : cs[h] # " "
         IN  <<SubSeq(cs, 1, i - 1)>> \o Split(SubSeq(cs, i + 1, Len(cs)))

\* strings.Count(cs, sep) from position i on: the occurrences of a non-empty
\* sep that do not overlap.
RECURSIVE CountFrom(_, _, _)
CountFrom(cs, sep, i) ==
    IF i + Len(sep) - 1 > Len(cs) THEN 0
    ELSE IF SubSeq(cs, i, i + Len(sep) - 1) = sep
      THEN 1 + CountFrom(cs, sep, i + Len(sep))
      ELSE CountFrom(cs, sep, i + 1)

\* strings.Count(cs, sep): for the empty sep, the number of characters plus 1.
Count(cs, sep) == IF sep = <<>> THEN Len(cs) + 1 ELSE CountFrom(cs, sep, 1)

RECURSIVE Sum(_)
Sum(ns) == IF ns = <<>> THEN 0 ELSE Head(ns) + Sum(Tail(ns))

\* snippets.go:233-243  the search tokens of a query.
Tokens(name) ==
    IF name = "" THEN << <<>> >>
    ELSE SelectSeq(Split(Chars(ToLower(name))), LAMBDA t : t # <<>>)

\* snippets.go:250-253  the number of matches of the tokens in a cached name.
Score(cached, qs) == Sum([i \in 1..Len(qs) |-> Count(Chars(cached), qs[i])])

\* snippets.go:260-268  the less function of the sort of the matches.
MatchLess(a, b) ==
    IF a.n = b.n
      THEN IF a.name = b.name THEN a.id > b.id
           ELSE StrLess(Chars(a.name), Chars(b.name))
      ELSE a.n > b.n

RECURSIVE SortMatches(_)
SortMatches(ms) ==
    IF ms = {} THEN <<>>
    ELSE LET m == CHOOSE x \in ms : \A y \in ms \ {x} : MatchLess(x, y)
         IN  <<m>> \o SortMatches(ms \ {m})

\* snippets.go:226-286  database.QueryByName(name, lim).
QueryByName(name, lim) ==
    LET qs == Tokens(name)
        ms == {m \in {[id |-> id, n |-> Score(names[id], qs), name |-> names[id]] :
                         id \in DOMAIN names} : m.n > 0}
        top == Truncate(SortMatches(ms), lim)
        found == SelectSeq(top, LAMBDA m : Retrieve(m.id).err = "")
    IN  QueryResult("", [i \in 1..Len(found) |-> Retrieve(found[i].id).s])

\* The arguments of the queries.
Queries == {"", "Tea", "e", "t", " ", "p  e", "pp"}
Limits == -1..2
Cursors == (zeroTime..MaxTime) \X (0..3)
AfterIds == {-1, 0, defaultID, 2, maxID}

\* ------------------------------------------------------------ auth tokens
\* time.Time: sec is the instant (0 in the zero Time), loc the location.
Time(sec, loc) == [sec |-> sec, loc |-> loc]

\* time.Time{}.
noTime == Time(0, "UTC")

\* Time.IsZero looks at the instant only.
IsZero(t) == t.sec = 0

\* Time.Equal: the same instant, in whatever location.
Equal(t, u) == t.sec = u.sec

\* Time.UTC.
UTC(t) == Time(t.sec, "UTC")

timeBinaryVersion == 1

\* The zone offset Time.MarshalBinary writes for a time in UTC.
offsetUTC == 255

\* The zone offset Time.MarshalBinary writes for a time in the local zone.
offsetLocal == 60

\* Time.MarshalBinary: the version, the instant, the zone offset, each one byte
\* here (in Go 1, 8+4 and 2 bytes).
TimeMarshalBinary(t) ==
    <<timeBinaryVersion, t.sec, IF t.loc = "UTC" THEN offsetUTC ELSE offsetLocal>>

\* Time.UnmarshalBinary: rejects no data, another version, another length.
TimeUnmarshalBinary(b) ==
    IF Len(b) = 0 THEN [err |-> TRUE, t |-> noTime]
    ELSE IF b[1] # timeBinaryVersion THEN [err |-> TRUE, t |-> noTime]
    ELSE IF Len(b) # 3 THEN [err |-> TRUE, t |-> noTime]
    ELSE [err |-> FALSE, t |-> Time(b[2], IF b[3] = offsetUTC THEN "UTC" ELSE "Local")]

\* sha256.BlockSize, in bytes.
BlockSize == 2

\* crypto/hmac: a key shorter than the block size of the hash is padded with
\* zero bytes to that size.  (A longer key is hashed first; no key used here is
\* longer than the block size.)
RECURSIVE keyBlock(_)
keyBlock(k) == IF Len(k) >= BlockSize THEN k ELSE keyBlock(Append(k, 0))

\* hmac.New(sha256.New, key); mac.Write(msg); mac.Sum(nil).  HMAC-SHA256 is
\* taken to have no collisions: the sum determines the key block and the
\* message, and is written here as the two of them.
hmacSum(k, msg) == keyBlock(k) \o msg

\* A byte as two hexadecimal digits (the verbs %02x and %x of fmt).
hexByte(b) == <<b \div 16, b % 16>>

RECURSIVE hexEncode(_)
hexEncode(bs0) == IF bs0 = <<>> THEN <<>> ELSE hexByte(Head(bs0)) \o hexEncode(Tail(bs0))

\* A character of a token that is not a hexadecimal digit.
notHex == 16

\* hex.DecodeString: the bytes of the digit pairs; an error on a character
\* that is no digit and on an odd length, with the bytes decoded before it.
RECURSIVE hexDecode(_)
hexDecode(s) ==
    IF s = <<>> THEN [err |-> FALSE, b |-> <<>>]
    ELSE IF Len(s) = 1 \/ s[1] = notHex \/ s[2] = notHex THEN [err |-> TRUE, b |-> <<>>]
    ELSE LET r == hexDecode(SubSeq(s, 3, Len(s)))
         IN  [err |-> r.err, b |-> <<s[1] * 16 + s[2]>> \o r.b]

\* playground.go:158-164  formatAuthToken.
formatAuthToken(k, t) ==
    LET bt == TimeMarshalBinary(UTC(t))
    IN  hexByte(Len(bt)) \o hexEncode(bt) \o hexEncode(hmacSum(k, bt))

\* parseAuthToken without the comparison of the MACs.
parseAuthTokenUnsigned(k, s) ==
    LET d == hexDecode(s)
        b == d.b
    IN  IF Len(b) = 0 \/ d.err THEN noTime
        ELSE IF b[1] > Len(b) - 1 THEN noTime
        ELSE LET bt == SubSeq(b, 2, 1 + b[1])
                 u == TimeUnmarshalBinary(bt)
             IN  IF u.err THEN noTime ELSE u.t

\* playground.go:166-182  parseAuthToken.
parseAuthToken(k, s) ==
    LET d == hexDecode(s)
        b == d.b
    IN  IF Len(b) = 0 \/ d.err THEN noTime
        ELSE IF b[1] > Len(b) - 1 THEN noTime
        ELSE LET bt == SubSeq(b, 2, 1 + b[1])
                 bmac == SubSeq(b, 2 + b[1], Len(b))
                 u == TimeUnmarshalBinary(bt)
             IN  IF hmacSum(k, bt) # bmac \/ u.err THEN noTime ELSE u.t

NoToken == <<>>

NoParse == [key |-> <<>>, t |-> noTime, any |-> FALSE]

NoResp == [at |-> 0]

\* The keys given to the two functions: every byte string over 0 and 1 that
\* fits the block of the hash.
Keys == UNION {[1..n -> {0, 1}] : n \in 0..BlockSize}

\* The times given to formatAuthToken: the zero time, and instants in UTC and
\* in the local zone.
TokTimes == {noTime, Time(1, "UTC"), Time(1, "Local"), Time(2, "Local")}

\* The web state with which a specification starts.
InitWebWith(ks, ts) ==
    /\ failed = 0
    /\ sess = "open"
    /\ recvd = ""
    /\ clock = 1
    /\ jar = NoToken
    /\ resp = NoResp
    /\ key \in ks
    /\ ttime \in ts
    /\ token = NoToken
    /\ parsed = NoParse

InitWeb == InitWebWith({<<>>}, {noTime})

\* token = formatAuthToken(key, ttime).
Format ==
    /\ token' = formatAuthToken(key, ttime)
    /\ parsed' = NoParse
    /\ UNCHANGED <<failed, sess, recvd, clock, jar, resp, key, ttime>>

\* The characters a forger writes into a token.
ForgedDigits == {0, 1, 15, notHex}

\* A formatted token is altered in one character, or cut short.
Tamper ==
    /\ token # NoToken
    /\ token = formatAuthToken(key, ttime)
    /\ \/ \E i \in 1..Len(token), dgt \in ForgedDigits : token' = [token EXCEPT ![i] = dgt]
       \/ \E n \in 0..(Len(token) - 1) : token' = SubSeq(token, 1, n)
    /\ token' # token
    /\ parsed' = NoParse
    /\ UNCHANGED <<failed, sess, recvd, clock, jar, resp, key, ttime>>

\* parsed = parseAuthToken(k, token).
Parse(k) ==
    /\ parsed' = [key |-> k, t |-> parseAuthToken(k, token), any |-> TRUE]
    /\ UNCHANGED <<failed, sess, recvd, clock, jar, resp, key, ttime, token>>

\* ----------------------------------------------------------- HTTP handlers
\* playground.go:153-156  the periods, in days; the clock counts days.
authRefreshPeriod == 1

authExpirePeriod == 7

\* [sha256.Size]byte{}: the password hash of a server without a password.
NoPassword == <<0>>

\* The request lines: for each route of ServeHTTP a path and a method it
\* serves, and some it does not.
Lines ==
    {<<"GET", "/favicon.ico">>, <<"GET", "/static/js/x.js">>, <<"POST", "/static/js/x.js">>,
     <<"GET", "/login">>, <<"POST", "/login">>, <<"GET", "/">>, <<"GET", "/7">>,
     <<"DELETE", "/">>, <<"GET", "/snippets">>, <<"POST", "/snippets">>,
     <<"DELETE", "/snippets/7">>, <<"GET", "/websocket">>, <<"GET", "/dynamic/md5-1">>,
     <<"GET", "/nowhere">>}

\* playground.go:84-92  the regular expressions, as the paths they match.
reStatic == {"/static/js/x.js", "/static/img/favicon.ico"}

reLogin == {"/login"}

reRoot == {"/", "/7"}

reSnippets == {"/snippets"}

reSnippetsID == {"/snippets/7"}

reWebsocket == {"/websocket"}

reDynamic == {"/dynamic/md5-1"}

\* A request: cookies holds the values of its cookies named "auth", in
\* order; pwOk tells whether the salted hash of its body is the password hash.
Request(path, method, cookies, pwOk) ==
    [path |-> path, method |-> method, cookies |-> cookies, pwOk |-> pwOk]

\* What a handler did with the ResponseWriter: the content it served, the
\* status, and the values of the auth cookies it set.
Response(served, status, cookies) == [served |-> served, status |-> status, cookies |-> cookies]

\* playground.go:141-151  matchRequest.
matchRequest(r, re, methods) == r.path \in re /\ r.method \in methods

\* playground.go:207-216  refreshAuth: the value of the cookie it sets.
refreshAuth == formatAuthToken(key, Time(clock, "Local"))

\* isAuthenticated has not been called.
NoAuth == [called |-> FALSE, ok |-> FALSE, cookies |-> <<>>]

\* isAuthenticated renewing a token from the age of the refresh period on.
isAuthenticatedEager(r) ==
    IF key = NoPassword THEN [called |-> TRUE, ok |-> TRUE, cookies |-> <<>>]
    ELSE IF r.cookies = <<>> THEN [called |-> TRUE, ok |-> FALSE, cookies |-> <<>>]
    ELSE LET t == parseAuthToken(key, Head(r.cookies))
             d == clock - t.sec
         IN  IF IsZero(t) THEN [called |-> TRUE, ok |-> FALSE, cookies |-> <<>>]
             ELSE IF d > authExpirePeriod THEN [called |-> TRUE, ok |-> FALSE, cookies |-> <<>>]
             ELSE IF d >= authRefreshPeriod THEN [called |-> TRUE, ok |-> TRUE, cookies |-> <<refreshAuth>>]
             ELSE [called |-> TRUE, ok |-> TRUE, cookies |-> <<>>]

\* playground.go:184-205  isAuthenticated: its result and the cookie it set.
\* The first cookie named "auth" decides.
isAuthenticated(r) ==
    IF key = NoPassword THEN [called |-> TRUE, ok |-> TRUE, cookies |-> <<>>]
    ELSE IF r.cookies = <<>> THEN [called |-> TRUE, ok |-> FALSE, cookies |-> <<>>]
    ELSE LET t == parseAuthToken(key, Head(r.cookies))
             d == clock - t.sec
         IN  IF IsZero(t) THEN [called |-> TRUE, ok |-> FALSE, cookies |-> <<>>]
             ELSE IF d > authExpirePeriod THEN [called |-> TRUE, ok |-> FALSE, cookies |-> <<>>]
             ELSE IF d > authRefreshPeriod THEN [called |-> TRUE, ok |-> TRUE, cookies |-> <<refreshAuth>>]
             ELSE [called |-> TRUE, ok |-> TRUE, cookies |-> <<>>]

\* playground.go:218-240  serveLogin.
serveLogin(r) ==
    IF matchRequest(r, reLogin, {"POST"})
      THEN IF r.pwOk THEN Response("login", 200, <<refreshAuth>>)
           ELSE Response("unauthorized", 401, <<>>)
    ELSE IF matchRequest(r, reLogin, {"GET"}) \/ matchRequest(r, reRoot, {"GET"})
      THEN Response("playground-login.html", 200, <<>>)
    ELSE Response("unauthorized", 401, <<>>)

\* ServeHTTP asking for authentication after the blob endpoint.
ServeHTTPOpenBlobs(r0, down) ==
    LET r == IF r0.path = "/favicon.ico" THEN [r0 EXCEPT !.path = "/static/img/favicon.ico"] ELSE r0
        a == isAuthenticated(r)
        l == serveLogin(r)
    IN  IF down THEN [auth |-> NoAuth, out |-> Response("shutting down", 503, <<>>)]
        ELSE IF matchRequest(r, reStatic, {"GET"})
          THEN [auth |-> NoAuth, out |-> Response("static", 200, <<>>)]
        ELSE IF matchRequest(r, reDynamic, {"GET"})
          THEN [auth |-> NoAuth, out |-> Response("blob", 200, <<>>)]
        ELSE IF ~a.ok \/ r.path \in reLogin
          THEN [auth |-> a, out |-> [l EXCEPT !.cookies = a.cookies \o @]]
        ELSE [auth |-> a, out |->
               IF matchRequest(r, reRoot, {"GET"}) THEN Response("playground.html", 200, a.cookies)
               ELSE IF matchRequest(r, reSnippets, {"GET"}) THEN Response("listing", 200, a.cookies)
               ELSE IF matchRequest(r, reSnippets, {"POST"})
                       \/ matchRequest(r, reSnippetsID, {"GET", "PUT", "DELETE"})
                 THEN Response("snippet", 200, a.cookies)
               ELSE IF matchRequest(r, reWebsocket, {"GET", "CONNECT"})
                 THEN Response("websocket", 200, a.cookies)
               ELSE Response("redirect", 307, a.cookies)]

\* playground.go:94-139  ServeHTTP: what isAuthenticated returned (if it was
\* called) and the response.  down: pg.ctx is done.  The status of a served
\* endpoint is written as 200 whatever the endpoint goes on to answer.
ServeHTTP(r0, down) ==
    LET r == IF r0.path = "/favicon.ico" THEN [r0 EXCEPT !.path = "/static/img/favicon.ico"] ELSE r0
        a == isAuthenticated(r)
        l == serveLogin(r)
    IN  IF down THEN [auth |-> NoAuth, out |-> Response("shutting down", 503, <<>>)]
        ELSE IF matchRequest(r, reStatic, {"GET"})
          THEN [auth |-> NoAuth, out |-> Response("static", 200, <<>>)]
        ELSE IF ~a.ok \/ r.path \in reLogin
          THEN [auth |-> a, out |-> [l EXCEPT !.cookies = a.cookies \o @]]
        ELSE [auth |-> a, out |->
               IF matchRequest(r, reRoot, {"GET"}) THEN Response("playground.html", 200, a.cookies)
               ELSE IF matchRequest(r, reSnippets, {"GET"}) THEN Response("listing", 200, a.cookies)
               ELSE IF matchRequest(r, reSnippets, {"POST"})
                       \/ matchRequest(r, reSnippetsID, {"GET", "PUT", "DELETE"})
                 THEN Response("snippet", 200, a.cookies)
               ELSE IF matchRequest(r, reWebsocket, {"GET", "CONNECT"})
                 THEN Response("websocket", 200, a.cookies)
               ELSE IF matchRequest(r, reDynamic, {"GET"}) THEN Response("blob", 200, a.cookies)
               ELSE Response("redirect", 307, a.cookies)]

\* The auth cookie values a client without the password can make up: a token
\* signed with a key of its own, and no token at all.
Forgery == formatAuthToken(<<1, 1>>, Time(clock, "UTC"))

Forged == {Forgery, <<0, 0>>}

\* The auth cookies a request carries: none, the one the browser holds,
\* made-up ones, or two of them.
CookieChoices ==
    {<<>>} \cup {<<f>> : f \in Forged}
      \cup (IF jar = NoToken THEN {}
            ELSE {<<jar>>, <<Forgery, jar>>, <<jar, Forgery>>})

\* A request is served; the browser keeps the last auth cookie of the response.
Serve ==
    /\ \E line \in Lines, cookies \in CookieChoices :
         \E pwOk \in (IF line = <<"POST", "/login">> THEN BOOLEAN ELSE {FALSE}),
            down \in (IF cookies = <<>> THEN BOOLEAN ELSE {FALSE}) :
           LET r == Request(line[2], line[1], cookies, pwOk)
               s == ServeHTTP(r, down)
           IN  /\ resp' = [at |-> clock, req |-> r, auth |-> s.auth, out |-> s.out]
               /\ jar' = IF s.out.cookies = <<>> THEN jar
                         ELSE s.out.cookies[Len(s.out.cookies)]
    /\ UNCHANGED <<failed, sess, recvd, clock, key, ttime, token, parsed>>

\* A day passes; the last response is history.
ClockTick ==
    /\ clock < MaxClock
    /\ clock' = clock + 1
    /\ resp' = NoResp
    /\ UNCHANGED <<failed, sess, recvd, jar, key, ttime, token, parsed>>

\* ------------------------------------------------------ websocket session
\* playground.go:417-422  sendMessage: conn.WriteMessage may fail; once it
\* has, the connection is broken.  failed names the call of the first frame
\* whose write returned an error.  Nothing in the program reads the error
\* but the copying of a child process's output.
Transport ==
    failed' \in (IF failed # 0 \/ frames' = frames THEN {failed}
                 ELSE {0, frames'[Len(frames')].call})

\* playground.go:437-438  case actionRun, actionFormat: ex.Start(action, data).
RecvStart(c) ==
    /\ sess = "open"
    /\ \/ StartWith(c, actionFormat, 0) /\ recvd' = actionFormat
       \/ StartWith(c, actionRun, 1) /\ recvd' = actionRun
    /\ UNCHANGED sess

\* playground.go:439-440  case actionStop: ex.Stop().
RecvStop(c) ==
    /\ sess = "open"
    /\ StopCall(c)
    /\ recvd' = actionStop
    /\ UNCHANGED sess

\* playground.go:441-444  case clearOutput: sendMessage(clearOutput, "").
RecvClear(c) ==
    /\ sess = "open"
    /\ Invoke(c, "Echo", clearOutput, 0)
    /\ frames' = Append(frames, Frame(c, calls + 1, Msg(clearOutput, "")))
    /\ returned' = returned \cup {calls + 1}
    /\ recvd' = clearOutput
    /\ UNCHANGED <<mu, closed, ctx, done, wg, bids, bs, tmpDir, pc, task, sess>>

\* playground.go:445-446  default: ex.sendMsg(statusUpdate, "Unknown action").
RecvUnknown(c) ==
    /\ sess = "open"
    /\ Invoke(c, "Unknown", "Bogus", 0)
    /\ sendMsg(c, calls + 1, statusUpdate, "Unknown action")
    /\ returned' = returned \cup {calls + 1}
    /\ recvd' = "Bogus"
    /\ UNCHANGED <<mu, closed, ctx, done, wg, bids, bs, tmpDir, pc, task, sess>>

\* playground.go:426-431  recvMessage returns an error: the loop returns
\* and the deferred ex.Close() runs.
RecvError(c) ==
    /\ sess = "open"
    /\ CloseCall(c)
    /\ sess' = "ended"
    /\ UNCHANGED recvd

NextStore ==
    \/ \E s \in Snippets : Create(s) /\ UNCHANGED <<keyVars, shareVars, execVars, webVars>>
    \/ \E s \in Snippets, id \in Ids : Update(s, id) /\ UNCHANGED <<keyVars, shareVars, execVars, webVars>>
    \/ \E id \in Ids : Delete(id) /\ UNCHANGED <<keyVars, shareVars, execVars, webVars>>
    \/ Reopen /\ UNCHANGED <<keyVars, shareVars, execVars, webVars>>
    \/ Tick /\ UNCHANGED <<keyVars, shareVars, execVars, webVars>>

Init == InitExec({101}, MaxCalls) /\ InitStore /\ InitShare /\ InitKeys /\ InitWeb

Caller(c) ==
    \/ StartCall(c) \/ StopCall(c) \/ CloseCall(c)
    \/ StopLock(c) \/ StopCancel(c) \/ StopWait(c)
    \/ StartLock(c) \/ StartClosed(c) \/ StartSetup(c) \/ StartSend(c)
    \/ StartGo(c) \/ StartUnknown(c)
    \/ CloseLock(c) \/ CloseSet(c) \/ CloseWait(c) \/ CloseBlobs(c) \/ CloseRemove(c)

Handler(a) ==
    \/ TaskSend(a) \/ TaskStopped(a) \/ TaskDone(a)
    \/ FormatWrite(a) \/ FormatRead(a)
    \/ RunPurge(a) \/ RunWrite(a) \/ RunParse(a) \/ RunLoop(a)
    \/ CmdStart(a) \/ ChildWrite(a) \/ ChildExit(a) \/ ChildKill(a)
    \/ ProfWrite(a) \/ ProfRead(a) \/ ProfLock(a) \/ ProfAppend(a)

Next ==
    \/ \E c \in Callers : Caller(c) /\ UNCHANGED <<keyVars, shareVars, storeVars, webVars, limit>>
    \/ \E a \in CallIds : Handler(a) /\ UNCHANGED <<keyVars, shareVars, storeVars, webVars, called, limit>>

Spec == Init /\ [][Next]_vars

\* Two goroutines call the same executor; the sources they submit are the
\* ones that end before the toolchain loop (Format, and Run of Programs[2]).
InitConc == InitExec(Callers, MaxConcCalls) /\ InitStore /\ InitShare /\ InitKeys /\ InitWeb

StartCallConc(c) == StartWith(c, actionFormat, 0) \/ StartWith(c, actionRun, 2)

CallerConc(c) ==
    \/ StartCallConc(c) \/ StopCall(c) \/ CloseCall(c)
    \/ StopLock(c) \/ StopCancel(c) \/ StopWait(c)
    \/ StartLock(c) \/ StartClosed(c) \/ StartSetup(c) \/ StartSend(c) \/ StartGo(c)
    \/ CloseLock(c) \/ CloseSet(c) \/ CloseWait(c) \/ CloseBlobs(c) \/ CloseRemove(c)

HandlerConc(a) ==
    \/ TaskSend(a) \/ TaskStopped(a) \/ TaskDone(a)
    \/ FormatWrite(a) \/ FormatRead(a)
    \/ RunPurge(a) \/ RunWrite(a) \/ RunParse(a)
    \/ CmdStart(a) \/ ChildWrite(a) \/ ChildExit(a) \/ ChildKill(a)

NextConc ==
    \/ \E c \in Callers : CallerConc(c) /\ UNCHANGED <<keyVars, shareVars, storeVars, webVars, limit>>
    \/ \E a \in CallIds : HandlerConc(a) /\ UNCHANGED <<keyVars, shareVars, storeVars, webVars, called, limit>>

SpecConc == InitConc /\ [][NextConc]_vars

\* Two executors on one blob store: the first is followed call by call through
\* Format and the Run of the profiled test suite (Programs[3]), the second
\* through its effects on the store.
StartCallShared(c) == StartWith(c, actionFormat, 0) \/ StartWith(c, actionRun, 3)

CallerShared(c) ==
    \/ StartCallShared(c) \/ StopCall(c) \/ CloseCall(c)
    \/ StopLock(c) \/ StopCancel(c) \/ StopWait(c)
    \/ StartLock(c) \/ StartClosed(c) \/ StartSetup(c) \/ StartSend(c) \/ StartGo(c)
    \/ CloseLock(c) \/ CloseSet(c) \/ CloseWait(c) \/ CloseBlobs(c) \/ CloseRemove(c)

otherVars == <<mu, closed, ctx, done, wg, bids, tmpDir, frames, pc, cur, calls, task, returned, called, limit>>

NextShared ==
    \/ \E c \in Callers : CallerShared(c) /\ UNCHANGED <<keyVars, shareVars, storeVars, webVars, limit>>
    \/ \E a \in CallIds : Handler(a) /\ UNCHANGED <<keyVars, shareVars, storeVars, webVars, called, limit>>
    \/ OtherProf /\ UNCHANGED <<keyVars, otherVars, storeVars, webVars>>
    \/ OtherDeleteBlobs /\ UNCHANGED <<keyVars, otherVars, storeVars, webVars>>

SpecShared == Init /\ [][NextShared]_vars

\* The snippet database alone.
SpecStore == Init /\ [][NextStore]_vars

\* The callers of the store whose arguments pass the checks of Create, Update
\* and Delete more often than not: a snippet with a name, to create and to
\* rename with, and a snippet with code only, to update with.
QuerySnippets ==
    {snippet(0, zeroTime, zeroTime, "Tea", ""),
     snippet(0, zeroTime, zeroTime, "", "code")}

QueryIds == 0..3

NextQuery ==
    \/ \E s \in QuerySnippets : Create(s) /\ UNCHANGED <<keyVars, shareVars, execVars, webVars>>
    \/ \E s \in QuerySnippets, id \in QueryIds : Update(s, id) /\ UNCHANGED <<keyVars, shareVars, execVars, webVars>>
    \/ \E id \in QueryIds : Delete(id) /\ UNCHANGED <<keyVars, shareVars, execVars, webVars>>
    \/ Reopen /\ UNCHANGED <<keyVars, shareVars, execVars, webVars>>
    \/ Tick /\ UNCHANGED <<keyVars, shareVars, execVars, webVars>>

SpecQuery == Init /\ [][NextQuery]_vars

\* One goroutine calls the executor and every goroutine that can take a step
\* is scheduled; the source it submits is the plain program, Programs[1],
\* whose process may never exit.
InitLive == InitExec({101}, MaxLiveCalls) /\ InitStore /\ InitShare /\ InitKeys /\ InitWeb

\* The steps of a call in progress (everything but the invocation itself).
Internal(c) ==
    \/ StopLock(c) \/ StopCancel(c) \/ StopWait(c)
    \/ StartLock(c) \/ StartClosed(c) \/ StartSetup(c) \/ StartSend(c) \/ StartGo(c)
    \/ CloseLock(c) \/ CloseSet(c) \/ CloseWait(c) \/ CloseBlobs(c) \/ CloseRemove(c)

CallerLive(c) ==
    \/ StartWith(c, actionRun, 1) \/ StopCall(c) \/ CloseCall(c)
    \/ Internal(c)

HandlerLive(a) ==
    \/ TaskSend(a) \/ TaskStopped(a) \/ TaskDone(a)
    \/ RunPurge(a) \/ RunWrite(a) \/ RunParse(a) \/ RunLoop(a)
    \/ CmdStart(a) \/ ChildWrite(a) \/ ChildExit(a) \/ ChildKill(a)

NextLive ==
    \/ \E c \in Callers : CallerLive(c) /\ UNCHANGED <<keyVars, shareVars, storeVars, webVars, limit>>
    \/ \E a \in CallIds : HandlerLive(a) /\ UNCHANGED <<keyVars, shareVars, storeVars, webVars, called, limit>>

\* The Go scheduler runs every goroutine that can take a step; what it does
\* not decide is whether the session makes another call.
Fairness ==
    /\ \A c \in Callers : WF_vars(Internal(c) /\ UNCHANGED <<keyVars, shareVars, storeVars, webVars, limit>>)
    /\ \A a \in CallIds : WF_vars(HandlerLive(a) /\ UNCHANGED <<keyVars, shareVars, storeVars, webVars, called, limit>>)

SpecLive == InitLive /\ [][NextLive]_vars /\ Fairness

\* idKey and dualKey alone, on pairs of (modified, id).
InitKey == InitExec({101}, MaxCalls) /\ InitStore /\ InitShare /\ InitKeysWith(KeyPairs) /\ InitWeb

NextKey == CompareKeys /\ UNCHANGED <<shareVars, execVars, storeVars, webVars>>

SpecKey == InitKey /\ [][NextKey]_vars

\* formatAuthToken and parseAuthToken alone, on every key and time.
InitToken == InitExec({101}, MaxCalls) /\ InitStore /\ InitShare /\ InitKeys /\ InitWebWith(Keys, TokTimes)

NextToken ==
    \/ Format /\ UNCHANGED <<keyVars, shareVars, execVars, storeVars>>
    \/ Tamper /\ UNCHANGED <<keyVars, shareVars, execVars, storeVars>>
    \/ \E k \in Keys : Parse(k) /\ UNCHANGED <<keyVars, shareVars, execVars, storeVars>>

SpecToken == InitToken /\ [][NextToken]_vars

\* The HTTP handlers of a server with a password (key <<1>>) and of one
\* without, and a browser that keeps the auth cookie it is sent.
InitAuth == InitExec({101}, MaxCalls) /\ InitStore /\ InitShare /\ InitKeys /\ InitWebWith({NoPassword, <<1>>}, {noTime})

NextAuth ==
    \/ Serve /\ UNCHANGED <<keyVars, shareVars, execVars, storeVars>>
    \/ ClockTick /\ UNCHANGED <<keyVars, shareVars, execVars, storeVars>>

SpecAuth == InitAuth /\ [][NextAuth]_vars

\* One websocket session on a connection that takes every frame: the read loop of serveWebsocket calls the executor
\* it created for the Run, Format and Stop messages of the client, echoes
\* ClearOutput, and closes the executor when the loop ends; the source a Run
\* submits is the plain program, Programs[1].
InitSession == InitExec({101}, MaxSessCalls) /\ InitStore /\ InitShare /\ InitKeys /\ InitWeb

authVars == <<clock, jar, resp, key, ttime, token, parsed>>

ReadLoop(c) ==
    \/ RecvStart(c) \/ RecvStop(c) \/ RecvClear(c) \/ RecvError(c)
    \/ Internal(c) /\ UNCHANGED <<sess, recvd>>

HandlerSess(a) ==
    \/ TaskSend(a) \/ TaskStopped(a) \/ TaskDone(a)
    \/ FormatWrite(a) \/ FormatRead(a)
    \/ RunPurge(a) \/ RunWrite(a) \/ RunParse(a) \/ RunLoop(a)
    \/ CmdStart(a) \/ ChildWrite(a) \/ ChildExit(a) \/ ChildKill(a)

NextSession ==
    \/ \E c \in Callers : ReadLoop(c) /\ UNCHANGED <<keyVars, shareVars, storeVars, authVars, failed, limit>>
    \/ \E a \in CallIds : HandlerSess(a)
                              /\ UNCHANGED <<keyVars, shareVars, storeVars, authVars, failed, sess, recvd, called, limit>>

SpecSession == InitSession /\ [][NextSession]_vars

\* The same session with a client that also sends actions the server does
\* not know, on a connection whose writes may begin to fail.
NextBroken ==
    \/ \E c \in Callers : (ReadLoop(c) \/ RecvUnknown(c)) /\ Transport
                              /\ UNCHANGED <<keyVars, shareVars, storeVars, authVars, limit>>
    \/ \E a \in CallIds : HandlerSess(a) /\ Transport
                              /\ UNCHANGED <<keyVars, shareVars, storeVars, authVars, sess, recvd, called, limit>>

SpecBroken == InitSession /\ [][NextBroken]_vars

\* ================================================================== claims
FramesOf(a) == SelectSeq(frames, LAMBDA f : f.call = a)

Kinds(a) == [i \in 1..Len(FramesOf(a)) |-> FramesOf(a)[i].kind]

InFlight == {a \in CallIds : task[a].pc \notin {"unborn", "done"}}

\* C1: the frames of every Format or Run action that Start began on an open
\* executor begin with StatusStarted, hold no second StatusStarted, hold
\* StatusStopped at most once and only as the last frame, and end with
\* StatusStopped once the handler goroutine is over, whatever its outcome.
C1_StartedFirstStoppedLast ==
    \A a \in CallIds :
       LET k == Kinds(a) IN
       (task[a].pc # "unborn" \/ (\E i \in 1..Len(k) : k[i] \in {statusStarted, statusStopped}))
       => /\ Len(k) > 0
          /\ k[1] = statusStarted
          /\ \A i \in 2..Len(k) : k[i] # statusStarted
          /\ \A i \in 1..Len(k) : k[i] = statusStopped => i = Len(k)
          /\ task[a].pc \in {"wgdone", "done"} => k[Len(k)] = statusStopped

\* A Run that was in flight when the next Start was called has been stopped
\* by it and has ended, and the Format that Start began has ended too.
C1_Witness ==
    \E a, b \in CallIds :
       /\ task[a].pc = "done" /\ task[a].kind = actionRun /\ Len(FramesOf(a)) = 3
       /\ called[b].op = "Start" /\ a \in called[b].busy
       /\ task[b].pc = "done" /\ task[b].kind = actionFormat /\ Len(FramesOf(b)) = 3

\* C2: at most one handler goroutine is in flight at any time, also when two
\* goroutines call Start concurrently.
C2_OneActionInFlight == Cardinality(InFlight) <= 1

\* C3: when a Start call begins after an earlier call has returned, no frame
\* of the earlier call is sent after the StatusStarted of the later one.
C3_NoInterleaving ==
    \A i, j \in 1..Len(frames) :
       (i < j /\ frames[i].kind = statusStarted)
       => frames[j].call \notin called[frames[i].call].after

\* Two actions have run one after the other, the second one started while
\* the first was still in flight.
C3_Witness ==
    \E i, j \in 1..Len(frames) :
       /\ i < j
       /\ frames[i].kind = statusStopped /\ frames[j].kind = statusStarted
       /\ frames[i].call # frames[j].call
       /\ frames[i].call \in called[frames[j].call].after
       /\ frames[i].call \in called[frames[j].call].busy

\* C4: once a Stop call has returned no handler goroutine is in flight and
\* every action that was begun has sent its StatusStopped; and while a Stop
\* call runs on an idle executor no frame is sent and nothing but the
\* (already unused) context changes, so a second Stop repeats a no-op.
C4_StopSettles ==
    /\ [](\A c \in Callers :
            (pc[c] = "idle" /\ cur[c].op = "Stop")
            => /\ InFlight = {} /\ wg = 0
               /\ \A a \in CallIds :
                    task[a].pc # "unborn" => Kinds(a)[Len(Kinds(a))] = statusStopped)
    /\ [][\A c \in Callers :
            (cur[c].op = "Stop" /\ pc[c] # "idle" /\ InFlight = {} /\ wg = 0)
            => UNCHANGED <<closed, wg, bids, bs, tmpDir, frames, task, ctx>>]_vars

\* A Stop called while a Run was in flight has returned.
C4_Witness ==
    \E c \in Callers, a \in CallIds :
       /\ pc[c] = "idle" /\ cur[c].op = "Stop" /\ cur[c].id \in returned
       /\ a \in called[cur[c].id].busy
       /\ task[a].pc = "done" /\ task[a].kind = actionRun

\* C5: a Stop invoked while a Run executes a program that never exits by
\* itself leads to the program being killed, the action sending
\* StatusStopped and ending, and the Stop call returning.
C5_StopKillsChild ==
    \A c \in Callers, a \in CallIds :
       (/\ cur[c].op = "Stop" /\ pc[c] = "stop_lock"
        /\ task[a].kind = actionRun /\ task[a].child.st = "run" /\ task[a].child.forever)
       ~> (/\ pc[c] = "idle"
           /\ task[a].pc = "done" /\ task[a].child.st = "none"
           /\ Kinds(a)[Len(Kinds(a))] = statusStopped)

\* Stop has canceled the context of a running program that never exits.
C5_Witness ==
    \E c \in Callers, a \in CallIds :
       /\ cur[c].op = "Stop" /\ pc[c] = "stop_wait"
       /\ task[a].kind = actionRun /\ task[a].child.st = "run" /\ task[a].child.forever
       /\ task[a].child.ctx \in done

\* Call a is a Start made after a Close had returned.
StartOnClosed(a) ==
    /\ called[a].op = "Start"
    /\ \E b \in called[a].after : called[b].op = "Close"

\* Call a waits for ex.mu while its own goroutine holds it.
SelfBlocked(a) ==
    \E c \in Callers :
       /\ cur[c].id = a /\ mu = c
       /\ pc[c] \in {"stop_lock", "start_lock", "close_lock"}

\* C6: a Start on a closed executor creates no handler goroutine (hence no
\* child process), sends neither StatusStarted nor StatusStopped, and sends
\* one StatusUpdate: the frame is there when the call has returned or can
\* take no further step.
C6_ClosedStartReportsOnce ==
    \A a \in CallIds :
       StartOnClosed(a)
       => /\ task[a].pc = "unborn"
          /\ Len(Kinds(a)) <= 1
          /\ \A i \in 1..Len(Kinds(a)) : Kinds(a)[i] = statusUpdate
          /\ (a \in returned \/ SelfBlocked(a)) => Len(Kinds(a)) = 1

\* C7: after a Close call has returned no handler goroutine is in flight, the
\* scratch directory is gone, and the blob store holds no blob (the executor
\* is the only user of the store), nor does ex.bids name one.
C7_CloseReleases ==
    (\E b \in returned : called[b].op = "Close")
    => /\ InFlight = {} /\ wg = 0
       /\ ~tmpDir
       /\ DOMAIN bs = {}
       /\ bids = <<>>

\* Close has returned on an executor whose Run, in flight when Close was
\* called, had put a profile into the blob store.
C7_Witness ==
    \E b \in returned, a \in CallIds :
       /\ called[b].op = "Close" /\ a \in called[b].busy
       /\ task[a].pc = "done" /\ task[a].id # ""

\* C8: no goroutine holds ex.mu while it hands a frame to the send-callback
\* or while a child process it started runs.
C8_MuNotHeldAcrossIO ==
    /\ \A i \in 1..Len(frames) : ~frames[i].held
    /\ \A a \in CallIds : task[a].child.st = "run" => mu # TaskOf(a)

\* C9: the ids successful Create calls return are strictly increasing and
\* above every id in use before, across Delete and close / reopen.
C9_IdsNeverReused ==
    \A i \in 1..Len(created) :
       /\ created[i] > defaultID
       /\ \A j \in 1..(i - 1) : created[j] < created[i]

\* C10: the default snippet exists and keeps the default name, whatever
\* Create, Update and Delete calls are made.
C10_DefaultSnippetKept ==
    /\ idKey(defaultID) \in DOMAIN bktByID
    /\ bktByID[idKey(defaultID)].Name = defaultName
\* C11: Create with an empty name or with a non-zero id returns a request
\* error, leaves both indexes and the name cache as they were and takes no
\* id: the next id to hand out is the same as before the call.
C11_CreateRejects ==
    [][\A s \in Snippets :
          (Create(s) /\ (s.Name = "" \/ s.ID # 0))
            => (/\ res' = Result("Create", "request", 0)
                /\ UNCHANGED <<bktByID, bktByDate, names, lastID>>)]_vars

\* A Create was rejected on a database that holds a created snippet.
C11_Witness ==
    /\ res = Result("Create", "request", 0)
    /\ Len(created) > 0
    /\ idKey(lastID) \in DOMAIN bktByID

\* C12: Update(s, id) returns a request error and leaves the stored records,
\* both indexes and the name cache as they were when id is 0, when s carries
\* an id other than id, or when s carries a created or a modified time.
C12_UpdateRejects ==
    [][\A s \in Snippets, id \in Ids :
          (Update(s, id) /\ (\/ id = 0
                             \/ s.ID # 0 /\ s.ID # id
                             \/ s.Created # zeroTime
                             \/ s.Modified # zeroTime))
            => (/\ res' = Result("Update", "request", id)
                /\ UNCHANGED <<bktByID, bktByDate, names>>)]_vars

\* C13: Create with the name "\n", and Update with the name "\n" of a stored
\* snippet, return a request error and leave the store as it was.
C13_BlankNameRejected ==
    [][/\ \A s \in Snippets :
            (Create(s) /\ s.Name = "\n")
              => (/\ res'.err = "request"
                  /\ UNCHANGED <<bktByID, bktByDate, names, lastID>>)
       /\ \A s \in Snippets, id \in Ids :
            (Update(s, id) /\ s.Name = "\n" /\ idKey(id) \in DOMAIN bktByID)
              => (/\ res'.err = "request"
                  /\ UNCHANGED <<bktByID, bktByDate, names, lastID>>)]_vars

C15_UpdateFrame ==
    [][\A s \in Snippets, id \in Ids :
          (res' = Result("Update", "", id) /\ Update(s, id))
            => (/\ Retrieve(id).err = ""
                /\ Retrieve(id)' =
                     [err |-> "",
                      s |-> snippet(id, Retrieve(id).s.Created, now,
                                    IF s.Name # "" THEN s.Name ELSE Retrieve(id).s.Name,
                                    IF s.Code # "" THEN s.Code ELSE Retrieve(id).s.Code)]
                /\ \A j \in (minID..maxID) \ {id} : Retrieve(j)' = Retrieve(j))]_vars

\* An Update of a created snippet, later than its creation, left another
\* created snippet beside it.
C15_Witness ==
    /\ res.op = "Update" /\ res.err = ""
    /\ Retrieve(res.id).err = ""
    /\ Retrieve(res.id).s.Created > zeroTime
    /\ Retrieve(res.id).s.Modified > Retrieve(res.id).s.Created
    /\ Retrieve(res.id).s.Code = "code"
    /\ Cardinality(DOMAIN bktByID) > 2

\* C16: closing and reopening the store changes no result of a query:
\* QueryByID(0, -1) yields after the reopening the snippets stored before the
\* close, with their fields, by ascending id, and QueryByName and
\* QueryByModified yield what they yielded before the close.
C16_ReopenKeepsResults ==
    [][Reopen =>
         /\ QueryByID(0, -1)' = QueryByID(0, -1)
         /\ QueryByID(0, -1).ss =
              [i \in 1..Cardinality(DOMAIN bktByID) |->
                 Decode(bktByID[Ascending(DOMAIN bktByID)[i]])]
         /\ \A q \in Queries, l \in Limits : QueryByName(q, l)' = QueryByName(q, l)
         /\ \A c \in Cursors, l \in Limits :
              QueryByModified(c[1], c[2], l)' = QueryByModified(c[1], c[2], l)]_vars

\* C17: QueryByModified(t, id, l) yields only snippets whose (modified, id)
\* is below the cursor (every snippet for the cursor (zero time, 0)), from
\* the latest down, and as many of them as there are, or l if l >= 0 is
\* less; the snippets below the last one of a page, queried with its
\* (modified, id) as the cursor, are the rest of the listing, for every
\* page size, also where snippets share a modified time.
C17_ModifiedPages ==
    \A c \in Cursors, l \in Limits :
      LET r == QueryByModified(c[1], c[2], l)
          n == Len(r.ss)
          below == {s \in Stored :
                      \/ c = <<zeroTime, 0>>
                      \/ Older(s, [Modified |-> c[1], ID |-> c[2]])}
      IN  /\ r.err = ""
          /\ \A i \in 1..n : r.ss[i] \in below
          /\ \A i \in 1..(n - 1) : Older(r.ss[i + 1], r.ss[i])
          /\ n = IF l >= 0 /\ l < Cardinality(below) THEN l ELSE Cardinality(below)
          /\ n > 0 =>
                r.ss \o QueryByModified(r.ss[n].Modified, r.ss[n].ID, -1).ss
                  = QueryByModified(c[1], c[2], -1).ss

\* Two created snippets share a modified time and a page of one snippet
\* ends between them.
C17_Witness ==
    \E a \in Stored, b \in Stored :
      /\ a.ID > b.ID /\ b.ID > defaultID
      /\ a.Modified = b.Modified
      /\ QueryByModified(zeroTime, 0, 1).ss = <<a>>
      /\ QueryByModified(a.Modified, a.ID, 1).ss = <<b>>

\* C18: QueryByID(a, l) yields the snippets with an id above a by ascending
\* id: all of them if l is negative, the first l of them (none for l = 0)
\* otherwise.
C18_IdPages ==
    \A a \in AfterIds, l \in Limits :
      LET r == QueryByID(a, l)
          n == Len(r.ss)
          above == {s \in Stored : s.ID > a}
      IN  /\ r.err = ""
          /\ \A i \in 1..n : r.ss[i] \in above
          /\ \A i \in 1..(n - 1) : r.ss[i].ID < r.ss[i + 1].ID
          /\ n = IF l >= 0 /\ l < Cardinality(above) THEN l ELSE Cardinality(above)
          /\ \A s \in above :
                (\A i \in 1..n : r.ss[i] # s) => (n > 0 => s.ID > r.ss[n].ID)

\* C19: QueryByName(q, l) gives every snippet of the store, as its score,
\* the sum over the lower-case terms of q (a single empty term for the empty
\* q) of the occurrences of the term in the lower-case name; it yields the
\* snippets of score above 0 by descending score, then ascending name, then
\* descending id, and the first l of them.
C19_NameRanking ==
    \A q \in Queries, l \in Limits :
      LET r == QueryByName(q, l)
          n == Len(r.ss)
          match(s) == [id |-> s.ID, n |-> Score(ToLower(s.Name), Tokens(q)),
                       name |-> ToLower(s.Name)]
          hits == {s \in Stored : match(s).n > 0}
      IN  /\ r.err = ""
          /\ \A i \in 1..n : r.ss[i] \in hits
          /\ \A i \in 1..(n - 1) : MatchLess(match(r.ss[i]), match(r.ss[i + 1]))
          /\ n = IF l >= 0 /\ l < Cardinality(hits) THEN l ELSE Cardinality(hits)
          /\ \A s \in hits :
                (\A i \in 1..n : r.ss[i] # s)
                  => (n > 0 => MatchLess(match(r.ss[n]), match(s)))

C21_InsertIdempotent ==
    [][\A d \in Data, mime \in {"image/svg+xml", "text/html"} :
          (BlobId(d) \in DOMAIN bs /\ bs' = Insert(bs, [data |-> d, mime |-> mime]))
            => (/\ DOMAIN bs' = DOMAIN bs
                /\ bs'[BlobId(d)].data = d
                /\ bs'[BlobId(d)].mime = bs[BlobId(d)].mime)]_vars


\* A goroutine of handleRun leaves parseFile and the argument setup: it goes on
\* to the toolchain loop, or it is rejected and only has frames left to send.
ParseSteps(a) == task[a].pc = "run_parse" /\ task'[a].pc # "run_parse"

\* C25: a source that parses and is in package main is accepted by parseFile
\* only if exactly one of hasMain and hasTests holds; with neither or with both
\* the Run is rejected with "Program must have either a main function or a set
\* of test functions."; a source in another package is rejected with
\* "Program must be in 'package main'.".
C25_MainXorTests ==
    [][\A a \in CallIds : ParseSteps(a) =>
          LET src == Programs[task[a].prog]
              rejectedWith(m) == /\ task'[a].pc = "stopping"
                                 /\ task'[a].todo = <<Msg(statusUpdate, m)>>
          IN  /\ (src.clauseOk /\ src.fullOk /\ src.pkg = "main" /\ task'[a].pc = "run_loop")
                    => (src.mainFn /\ ~src.testFn) \/ (~src.mainFn /\ src.testFn)
              /\ (src.clauseOk /\ src.fullOk /\ src.pkg = "main" /\ src.mainFn = src.testFn)
                    => rejectedWith("Program must have either a main function or a set of test functions.")
              /\ (src.clauseOk /\ src.pkg # "main")
                    => rejectedWith("Program must be in 'package main'.")]_vars

\* A source with both a main function and tests has been rejected and one
\* with neither is on its way out as well.
C25_Witness ==
    \E a \in CallIds :
        /\ task[a].pc = "stopping"
        /\ task[a].kind = actionRun
        /\ Programs[task[a].prog].mainFn /\ Programs[task[a].prog].testFn
        /\ task[a].todo = <<Msg(statusUpdate, "Program must have either a main function or a set of test functions.")>>

\* C26: a Run rejected before building (by parseFile, by an unknown toolchain
\* alias or by an unknown profiling mode) has, between its ClearOutput frame and
\* its StatusStopped frame, exactly one StatusUpdate frame, for every
\* combination of directives, and it has launched no process.
C26_RejectionFrames ==
    [][\A a \in CallIds : ParseSteps(a) =>
          LET p == parseFile(Programs[task[a].prog])
          IN  (~p.ok \/ ~setupRun(p).ok)
                => /\ task'[a].pc = "stopping"
                   /\ Len(task'[a].todo) = 1
                   /\ task'[a].todo[1].kind = statusUpdate
                   /\ task'[a].child.st = "none"]_vars

\* exec.go:331-372  the statements of the toolchain loop of handleRun.
LoopPcs == {"run_loop", "build_cmd", "exec_cmd", "prof_write", "copy_cmd",
            "pprof_cmd", "prof_read", "prof_lock", "prof_append"}

\* C27: the toolchains of a Run are compiled once each in the order of the
\* goversions directive: the loop starts at the first, each build runs the
\* toolchain the loop index selects, the index moves by one exactly when an
\* iteration ends, an iteration starts one build, the loop is left only from
\* its top with the toolchains exhausted or the Run canceled (so neither a
\* failed build nor a failed program ends it), and the program is executed only
\* after the build of the same iteration has succeeded.
C27_ToolchainsInOrder ==
    [][\A a \in CallIds :
          LET t == task[a]
              u == task'[a]
          IN  /\ (ParseSteps(a) /\ u.pc = "run_loop") => u.i = 1 /\ u.gcs # <<>>
              /\ (t.pc = "build_cmd" /\ t.child.st = "none" /\ u.child.st = "run")
                    => /\ t.i \in 1..Len(t.gcs)
                       /\ u.child.args = <<t.gcs[t.i]>> \o t.buildArgs
              /\ (t.pc \in LoopPcs /\ u.pc \in LoopPcs)
                    => /\ u.gcs = t.gcs
                       /\ u.i = IF u.pc = "run_loop" /\ t.pc # "run_loop" THEN t.i + 1 ELSE t.i
              /\ (u.pc = "build_cmd" /\ t.pc # "build_cmd") => t.pc = "run_loop"
              /\ (t.pc \in LoopPcs /\ u.pc \notin LoopPcs)
                    => /\ t.pc = "run_loop"
                       /\ t.i > Len(t.gcs) \/ (\E x \in CtxRead(a) : x \in done)
              /\ (u.pc = "exec_cmd" /\ t.pc # "exec_cmd")
                    => /\ t.pc = "build_cmd"
                       /\ t.child.st = "run"
                       /\ u = afterBuild(t, TRUE)
                       /\ u.execArgs = t.execArgs]_vars

\* The second toolchain of a goversions directive is compiling, the context of
\* the Run not canceled.
C27_Witness ==
    \E a \in CallIds :
        /\ task[a].pc = "build_cmd"
        /\ Len(task[a].gcs) = 2
        /\ task[a].i = 2
        /\ task[a].child.st = "run"
        /\ task[a].child.args[1] = "go2"
        /\ task[a].child.ctx \notin done

\* C28: a test suite whose directives give no execargs is executed as
\* ./main.test -test.v -test.run=. -test.bench=. whatever its other directives
\* are, and with execargs as ./main.test followed by exactly those arguments; a
\* program is built with build <buildargs> main.go and executed as ./main
\* followed by its execargs.
C28_CommandLines ==
    [][\A a \in CallIds :
          (task[a].pc \in {"build_cmd", "exec_cmd"} /\ task[a].child.st = "none"
             /\ task'[a].child.st = "run")
            => LET p == parseFile(Programs[task[a].prog])
                   args == task'[a].child.args
               IN  IF task[a].pc = "build_cmd"
                     THEN p.hasMain => Tail(args) = <<"build">> \o p.buildArgs \o <<"main.go">>
                   ELSE IF p.hasMain THEN args = <<"./main">> \o p.execArgs
                   ELSE IF p.execArgs = <<>>
                     THEN args = <<"./main.test", "-test.v", "-test.run=.", "-test.bench=.">>
                   ELSE args = <<"./main.test">> \o p.execArgs]_vars

\* A token formatted with key for ttime, unaltered, has been parsed.
ParsedFormatted == parsed.any /\ token = formatAuthToken(key, ttime)

\* C22 as stated: parseAuthToken(k, formatAuthToken(k, t)) is the instant t,
\* and with every key other than k the result is the zero time.
C22_TokenRoundTrip ==
    ParsedFormatted =>
        IF parsed.key = key THEN Equal(parsed.t, ttime) ELSE parsed.t = noTime

\* C22, amended: parseAuthToken(k, formatAuthToken(k, t)) is the instant t, in
\* UTC, and with every key other than k that has the length of k (as two
\* password hashes have) the result is the zero time.
C22_TokenRoundTripSameLength ==
    ParsedFormatted =>
        /\ parsed.key = key => parsed.t = UTC(ttime)
        /\ (parsed.key # key /\ Len(parsed.key) = Len(key)) => parsed.t = noTime

\* The token of a time in the local zone has been parsed with the key that
\* signed it, a key as long as the block of the hash.
C22_Witness ==
    /\ ParsedFormatted
    /\ parsed.key = key
    /\ Len(key) = BlockSize
    /\ ttime = Time(2, "Local")
    /\ parsed.t = Time(2, "UTC")

\* The last request was put to isAuthenticated by a server with a password,
\* its first auth cookie the token the server signed on day s.
SignedAt(s) ==
    /\ resp.at # 0
    /\ key # NoPassword
    /\ resp.auth.called
    /\ resp.req.cookies # <<>>
    /\ Head(resp.req.cookies) = formatAuthToken(key, Time(s, "UTC"))

\* What ServeHTTP serves to an authenticated request only.
Protected == {"playground.html", "listing", "snippet", "websocket", "blob", "redirect"}

\* C23: a request with a validly signed token of age d is rejected as
\* unauthenticated if d exceeds the expire period, is accepted and given a
\* fresh token if d exceeds the refresh period but not the expire period, and
\* is accepted and given no token if d does not exceed the refresh period.
C23_TokenAges ==
    \A s \in 1..MaxClock :
        SignedAt(s) =>
            LET d == resp.at - s
            IN  IF d > authExpirePeriod
                  THEN /\ ~resp.auth.ok
                       /\ resp.auth.cookies = <<>>
                       /\ resp.out.served \notin Protected
                ELSE IF d > authRefreshPeriod
                  THEN /\ resp.auth.ok
                       /\ resp.auth.cookies = <<formatAuthToken(key, Time(resp.at, "UTC"))>>
                ELSE /\ resp.auth.ok
                     /\ resp.auth.cookies = <<>>

\* A token two days old was accepted and renewed, and one older than the
\* expire period is what the browser is left with.
C23_Witness ==
    \E s \in 1..MaxClock :
        /\ SignedAt(s)
        /\ resp.at - s = authRefreshPeriod + 1
        /\ resp.out.served = "listing"
        /\ resp.out.cookies # <<>>
        /\ jar = formatAuthToken(key, Time(resp.at, "UTC"))

\* The last request carried an auth cookie that verifies under the password
\* hash and had not expired when the request was made.
CarriesValid ==
    \E i \in 1..Len(resp.req.cookies) :
        LET t == parseAuthToken(key, resp.req.cookies[i])
        IN  ~IsZero(t) /\ resp.at - t.sec <= authExpirePeriod

\* C24: with a password configured, the snippet, websocket and blob endpoints
\* are served only to a request with an auth cookie that verifies and has not
\* expired; a request without one gets static assets, the login page or the
\* answer to a login POST, nothing else; and such a request is sent an auth
\* cookie only by a login POST with the right password.
C24_AuthGate ==
    (resp.at # 0 /\ key # NoPassword) =>
        /\ resp.out.served \in Protected => CarriesValid
        /\ ~CarriesValid
             => resp.out.served \in {"static", "playground-login.html", "login",
                                     "unauthorized", "shutting down"}
        /\ (~CarriesValid /\ resp.out.cookies # <<>>)
             => /\ resp.req.path = "/login"
                /\ resp.req.method = "POST"
                /\ resp.req.pwOk
                /\ resp.out.served = "login"

\* The websocket endpoint was refused to a request whose auth cookie was
\* signed with another key.
C24_Witness ==
    /\ resp.at # 0
    /\ key # NoPassword
    /\ resp.req.path = "/websocket"
    /\ resp.req.method = "GET"
    /\ resp.req.cookies # <<>>
    /\ ~CarriesValid
    /\ resp.out.status = 401

\* C29: once the send-callback has returned an error for a frame of an
\* action, no child process is started for that action any more.
C29_EmitErrorAbandons ==
    [][\A a \in CallIds :
          (failed = a /\ task[a].child.st = "none") => task'[a].child.st # "run"]_vars

\* The read loop receives ClearOutput and echoes it.
EchoSteps == calls' = calls + 1 /\ called'[calls'].op = "Echo"

\* C30: a ClearOutput received from the client is echoed as one ClearOutput
\* frame and changes nothing of the executor or its actions; when the message
\* received before it was Stop, every action begun earlier has sent its
\* StatusStopped before the echo, and no action sends a frame once it is over.
C30_ClearOutputFence ==
    [][/\ EchoSteps
          => /\ frames' = Append(frames, [call |-> calls', kind |-> clearOutput,
                                          data |-> "", held |-> FALSE])
             /\ UNCHANGED <<mu, closed, ctx, done, wg, bids, bs, tmpDir, task>>
             /\ recvd = actionStop
                  => \A a \in CallIds :
                        /\ task[a].pc \in {"unborn", "done"}
                        /\ task[a].pc = "done"
                             => \E i \in 1..Len(frames) :
                                   frames[i].call = a /\ frames[i].kind = statusStopped
       /\ \A a \in CallIds : task[a].pc = "done" => FramesOf(a)' = FramesOf(a)]_vars

\* The echo of a ClearOutput is the last frame, after the StatusStopped of an
\* action that was in flight when the Stop before the ClearOutput arrived.
C30_Witness ==
    /\ calls >= 3
    /\ called[calls].op = "Echo"
    /\ called[calls - 1].op = "Stop"
    /\ called[calls - 1].busy # {}
    /\ frames[Len(frames)].kind = clearOutput
    /\ frames[Len(frames)].call = calls
    /\ \E a \in called[calls - 1].busy, i \in 1..Len(frames) :
          frames[i].call = a /\ frames[i].kind = statusStopped

\* The parse of the source fails: of the package clause, or of the whole file
\* in package main.
parseFails(src) == ~src.clauseOk \/ (src.pkg = "main" /\ ~src.fullOk)

\* C31: when the lexical or the full parse of the Run source fails, parseFile
\* reports ok with hasMain false and empty directive lists and sends no frame;
\* the Run goes on (unless the rename of temp.go fails) to the toolchain loop
\* with the default toolchain only, builds main_test.go with test -c, and never
\* executes a program: the build is what reports the error.
C31_ParseFailureDeferred ==
    [][\A a \in CallIds :
          LET t == task[a]
              u == task'[a]
          IN  (t.kind = actionRun /\ t.pc \in {"run_parse", "run_loop", "build_cmd"}
                 /\ parseFails(Programs[t.prog]))
                => /\ ParseSteps(a)
                      => /\ parseFile(Programs[t.prog]) = Parsed(TRUE, FALSE, NoArgs, <<>>)
                         /\ \/ /\ u.pc = "run_loop"
                               /\ u.todo = <<>>
                               /\ ~u.hasMain /\ ~u.verbose
                               /\ u.gcs = <<gcBin>>
                               /\ u.buildArgs = <<"test", "-c", "main_test.go">>
                            \/ /\ u.pc = "stopping"
                               /\ u.todo = <<errMsg>>
                   /\ (t.pc = "build_cmd" /\ t.child.st = "none" /\ u.child.st = "run")
                      => u.child.args = <<gcBin, "test", "-c", "main_test.go">>
                   /\ u.pc # "exec_cmd"]_vars

\* The compiler runs on main_test.go for a source in package main whose
\* //playground:goversions directive was read before the full parse failed.
C31_Witness ==
    \E a \in CallIds :
        /\ task[a].kind = actionRun
        /\ task[a].pc = "build_cmd"
        /\ task[a].child.st = "run"
        /\ Programs[task[a].prog].clauseOk /\ ~Programs[task[a].prog].fullOk
        /\ Programs[task[a].prog].magics # <<>>
        /\ task[a].child.args = <<gcBin, "test", "-c", "main_test.go">>

\* The elements of a sequence.
Range(s) == {s[i] : i \in DOMAIN s}

\* The goroutine of call a makes its next sendMsg call, of a frame of kind k.
Sends(a, k) ==
    /\ task[a].todo # <<>>
    /\ Head(task[a].todo).kind = k
    /\ task'[a].todo = Tail(task[a].todo)

\* C32: when a ReportProfile frame is emitted, the id it carries is in the blob
\* store and in ex.bids of the executor that emits it; a report that is empty
\* or too large leaves the store as it is and queues no ReportProfile frame.
C32_ProfileFrames ==
    [][\A a \in CallIds :
          /\ Sends(a, reportProfile)
                => /\ Head(task[a].todo).data \in DOMAIN bs
                   /\ Head(task[a].todo).data \in Range(bids)
          /\ (task[a].pc = "prof_read" /\ task'[a].pc \notin {"prof_read", "prof_lock"})
                => /\ bs' = bs
                   /\ \A i \in DOMAIN task'[a].todo : task'[a].todo[i].kind # reportProfile]_vars

\* The ids of ex.bids whose ReportProfile frame has been sent.
Announced ==
    {id \in Range(bids) :
        \A a \in CallIds : \A i \in DOMAIN task[a].todo :
            ~(task[a].todo[i].kind = reportProfile /\ task[a].todo[i].data = id)}

\* C38: a blob id that the executor announced in a ReportProfile frame and has
\* not purged since (it is still in its ex.bids: no new Run, no Close) is in
\* the blob store, whatever the other executor on the store does.
C38_BlobsSurviveOthers == \A id \in Announced : id \in DOMAIN bs

\* C33: a Run begins with the purge: its goroutine starts at the deleteBlobs
\* of handleRun, which removes every id of ex.bids from the blob store and
\* empties ex.bids before the source is written and parsed; the list is empty
\* while the source is written, parsed and rejected, and a blob enters the
\* store only from runProf, after the parse.
C33_PurgeAtRunStart ==
    [][\A a \in CallIds :
          LET t == task[a]
              u == task'[a]
          IN  /\ (t.pc = "unborn" /\ u.pc # "unborn" /\ u.kind = actionRun) => u.pc = "run_purge"
              /\ (t.pc = "run_purge" /\ u.pc # "run_purge")
                    => /\ u.pc = "run_write"
                       /\ bids' = <<>>
                       /\ \A id \in Range(bids) : id \notin DOMAIN bs'
              /\ (u.pc = "run_write" /\ t.pc # "run_write") => t.pc = "run_purge"
              /\ (u.pc = "run_parse" /\ t.pc # "run_parse") => t.pc = "run_write"
              /\ (t.pc \in {"run_write", "run_parse"}) => bids = <<>> /\ bids' = <<>>
              /\ (t.kind = actionRun /\ DOMAIN bs' \ DOMAIN bs # {} /\ u # t)
                    => t.pc = "prof_read"]_vars

\* A Run that produced a profile blob is over; the next Run, of a source in
\* another package, has been rejected by parseFile: nothing is left in the
\* store or in ex.bids.
C33_Witness ==
    \E a, b \in CallIds :
        /\ task[a].pc = "done" /\ task[a].kind = actionRun /\ task[a].id # ""
        /\ task[b].pc = "stopping" /\ task[b].kind = actionRun
        /\ Programs[task[b].prog].pkg # "main"
        /\ bids = <<>>
        /\ bs = <<>>

\* C34: once the context of a Run with several toolchains is canceled, its
\* goroutine starts no process, begins no iteration of the toolchain loop
\* (the index moves on by at most the iteration that was in progress), and
\* from the top of the loop goes to its deferred StatusStopped.
C34_NoIterationAfterCancel ==
    [][\A a \in CallIds :
          LET t == task[a]
              u == task'[a]
          IN  (t.kind = actionRun /\ t.pc \in LoopPcs /\ Len(t.gcs) > 1 /\ t.ctx0 \in done)
                => /\ ~(t.child.st = "none" /\ u.child.st = "run")
                   /\ ~(u.pc = "build_cmd" /\ t.pc # "build_cmd")
                   /\ (t.pc = "run_loop" /\ u.pc # "run_loop") => u.pc = "stopping"
                   /\ (t.pc = "run_loop" /\ t.todo = <<>> /\ u # t) => u.pc = "stopping"
                   /\ u.pc \in LoopPcs \cup {"stopping"}
                   /\ (u.pc = "stopping" /\ t.pc # "stopping")
                         => /\ t.pc = "run_loop"
                            /\ u.todo = <<>>]_vars

\* The Run of the source with two toolchains was canceled while its first
\* compiler ran: that iteration is over, the second was not begun, the
\* goroutine is at its deferred StatusStopped.
C34_Witness ==
    \E a \in CallIds :
        /\ task[a].kind = actionRun
        /\ task[a].pc = "stopping"
        /\ Len(task[a].gcs) = 2
        /\ task[a].i = 2
        /\ task[a].ctx0 \in done
        /\ task[a].todo = <<>>

\* Call a was made after a Close had returned.
AfterClose(a) == called[a].op # "none" /\ \E b \in called[a].after : called[b].op = "Close"

\* C35: every call of Start, Stop or Close made after a Close has returned
\* returns, and a Start among them that has returned has sent the one
\* StatusUpdate of the shutdown error and created no goroutine.
C35_ClosedExecutorReturns ==
    /\ \A a \in CallIds : AfterClose(a) ~> (a \in returned)
    /\ [](\A a \in CallIds :
            (StartOnClosed(a) /\ a \in returned)
               => Kinds(a) = <<statusUpdate>> /\ task[a].pc = "unborn")

\* C36: the by-modified bucket holds exactly the keys (modified, id) of the
\* records of the by-identity bucket, one for each record, and every record
\* is stored under the key of its own id.
C36_IndexesAgree ==
    /\ bktByDate = {dualKey(s.ID, s.Modified) : s \in Stored}
    /\ Cardinality(bktByDate) = Cardinality(DOMAIN bktByID)
    /\ \A k \in DOMAIN bktByID : idKey(Decode(bktByID[k]).ID) = k

\* A snippet was created and, at a later time, updated (its key in the
\* by-modified bucket was replaced); the last operation failed.
C36_Witness ==
    /\ res.err # ""
    /\ res.op \in {"Create", "Update", "Delete"}
    /\ \E s \in Stored : s.Created # zeroTime /\ s.Modified > s.Created
    /\ Cardinality(bktByDate) >= 2

\* C37: between two operations the keys of db.names are the ids of the stored
\* snippets and each id is mapped to the lower-case of the stored name, from
\* the first open of an empty store on.
C37_NameCacheMirrorsStore ==
    /\ DOMAIN names = {s.ID : s \in Stored}
    /\ \A s \in Stored : s.ID \in DOMAIN names => names[s.ID] = ToLower(s.Name)

\* C39: no step of a handleFormat goroutine, of a Start of a Format action or
\* of a Stop call changes the blob store or ex.bids: the blobs of the Run
\* before stay in the store.
C39_FormatKeepsBlobs ==
    [][/\ \A a \in CallIds :
            (task'[a] # task[a] /\ task'[a].kind = actionFormat)
              => bs' = bs /\ bids' = bids
       /\ \A c \in Callers :
            (/\ pc'[c] # pc[c] \/ cur'[c] # cur[c]
             /\ cur'[c].op = "Stop" \/ (cur'[c].op = "Start" /\ cur'[c].action = actionFormat))
              => bs' = bs /\ bids' = bids]_vars

\* A Run has stored a profile blob and a Format action after it is over: the
\* blob is in the store and in ex.bids.
C39_Witness ==
    \E a, b \in CallIds :
        /\ a < b
        /\ task[a].pc = "done" /\ task[a].kind = actionRun /\ task[a].id # ""
        /\ task[b].pc = "done" /\ task[b].kind = actionFormat
        /\ task[a].id \in DOMAIN bs
        /\ task[a].id \in Range(bids)

\* -1, 0 or 1 as x is below, equal to or above y.
Sign(x, y) == IF x < y THEN -1 ELSE IF x > y THEN 1 ELSE 0

\* The comparison of two pairs by modified time (seconds, then nanoseconds),
\* then by id.
pairCompare(a, b) ==
    IF a.sec # b.sec THEN Sign(a.sec, b.sec)
    ELSE IF a.nsec # b.nsec THEN Sign(a.nsec, b.nsec)
    ELSE Sign(a.id, b.id)

\* C40: the byte-wise comparison of the dual keys of two (modified, id) pairs
\* is the comparison of the pairs by modified time and then by id, and the
\* byte-wise comparison of the id keys of two ids is the comparison of the
\* ids, over the whole range of int64 seconds and ids.
C40_KeysPreserveOrder ==
    cmp.done => /\ cmp.dual = pairCompare(pairA, pairB)
                /\ cmp.ids = Sign(pairA.id, pairB.id)

\* The key of a pair with a negative second count and the largest id was
\* compared with the key of a pair at the last second and the largest id,
\* and found below it.
C40_Witness ==
    /\ cmp.done
    /\ pairA.sec < 0 /\ pairA.id = maxID
    /\ pairB.sec = maxID /\ pairB.id = maxID
    /\ cmp.dual = -1
    /\ cmp.ids = 0
====
